---- MODULE Spec2Model ----
(***************************************************************************)
(* gitraffe: a Bubble Tea program (model / Update / View) that shows the   *)
(* commit graph of a git repository.  The event loop owns one model value  *)
(* m; Update(msg) returns the next model and at most one command; commands *)
(* (loadRepo, loadDiffCmd) run off the loop and deliver their result as a  *)
(* message; View renders a frame from a copy of the model after each       *)
(* Update.                                                                 *)
(*                                                                         *)
(* Go indices are 0-based, TLA+ sequences 1-based: commits[i] of the       *)
(* source is m.commits[i + 1] here.  A Go string that is split on "\n"     *)
(* (DiffStat, DiffBody, the detail text) is kept as its sequence of lines; *)
(* the empty string is the empty sequence.                                 *)
(***************************************************************************)
EXTENDS Integers, Sequences, FiniteSets, TLC

VARIABLES
    m,        \* the model value held by the event loop (type model)
    loading,  \* TRUE while the loadRepo command of Init() is in flight
    inflight, \* diff fetches in flight: commit index -> number of commands
    event,    \* the message handled by the last Update
    prev,     \* selected / detailsScroll as they were before the last Update
    frame,    \* what View returned after the last Update
    quit,     \* TRUE once Update has returned tea.Quit
    win,      \* inputs and results of the computations checked on their own
    env       \* what this run's repository, `git show` and terminal do

vars == <<m, loading, inflight, event, prev, frame, quit, win, env>>

----------------------------------------------------------------------------
(* Bounds of the model *)

MaxInFlight == 2     \* diff commands in flight at a time
MaxFetched == 2      \* commits with a diff stored or in flight
MaxScroll == 10      \* cap on detailsScroll (the code has none)
MaxRows == 12        \* rows drawn for the scroll-window computations
MaxViewport == 8     \* viewport heights drawn for them
MaxLines == 3        \* lines of a drawn graph stream
MaxContent == 4      \* lines of a content drawn for trimToHeight
MaxTarget == 5       \* target heights drawn for trimToHeight
MaxTop == 5          \* runes of a top line drawn for addBoxLabel
MaxWidth == 100      \* window widths drawn for the panel widths
MaxGraphWidth == 60  \* graph widths drawn for them
MaxWindowHeight == 16 \* window heights drawn for the frame
MaxBoxHeight == 6    \* line counts drawn for the repo info box
MaxExtra == 2        \* lines a panel is rendered taller than asked

(* Constants of the program *)

PageStep == 10       \* "d"/"u" move by 10
MaxDiffLines == 300  \* loadDiffCmd truncates the patch at 300 lines
ListChrome == 8      \* visibleHeight = windowHeight - 8
MinWidth == 20       \* View: windowWidth < 20 is too small
MinHeight == 10      \* View: windowHeight < 10 is too small
ShortLen == 7        \* length of a short hash
HashLen == 40        \* length of a full hash
MinLeftWidth == 25   \* View raises the left panel to 25 columns
MinRightWidth == 30  \* and the right panel to 30
LeftFloor == 15      \* the left panel keeps 15 columns when the right is raised
SafetyRight == 10    \* View's last adjustment acts on a right panel under 10
MinContentHeight == 3 \* View keeps contentHeight at 3 or more
BoxHeight == 3       \* the repo info box: Height(1) and two border lines

Max(a, b) == IF a > b THEN a ELSE b
Min(a, b) == IF a < b THEN a ELSE b

----------------------------------------------------------------------------
(* The repository as the git commands show it.  A full hash is a string of *)
(* 40 hex characters; the hashes used here repeat one digit, and such a    *)
(* string is kept as its digit and its length.                             *)

HexDigits == <<"0", "1", "2", "3", "4", "5", "6", "7", "8", "9", "a", "b", "c", "d", "e", "f">>

FullHashOf(k) == [hex |-> HexDigits[(k % 16) + 1], len |-> HashLen]

\* shortHash := fullHash; if len(shortHash) > 7 { shortHash = shortHash[:7] }
ShortHash(h) == IF h.len > ShortLen THEN [h EXCEPT !.len = ShortLen] ELSE h

\* One line of `git log --graph --pretty=format:%H%x00%an%x00%at%x00%s%x00%P%x00%D`:
\* graph is the text before the first 40-hex run, fields the NUL-separated
\* record from that run on (strings.SplitN(dataPart, "\x00", 6)); fields is
\* empty when the line holds no 40-hex run.  The parents field is kept as the
\* sequence of its blank-separated words (strings.Fields).
GraphLineOf(g, f) == [graph |-> g, fields |-> f]

NoParents == <<>>

\* The three lines of the specification's parsing scenario.
ScenarioLines ==
    << GraphLineOf(<<"*", " ">>, <<FullHashOf(1), "Alice", 1700000000, "Initial", NoParents, "">>),
       GraphLineOf(<<"|", "\\">>, <<>>),
       GraphLineOf(<<"*", " ">>, <<FullHashOf(2), "Bob", 1700000100, "Second", <<FullHashOf(1)>>, "">>) >>

\* A graph stream with a record that has too few fields, a merge and refs.
BranchLines ==
    << GraphLineOf(<<"*", " ", " ", " ">>, <<FullHashOf(3), "Carol", 1700000300, "Merge", <<FullHashOf(2), FullHashOf(1)>>, "HEAD -> main">>),
       GraphLineOf(<<"|", "\\", " ", " ">>, <<>>),
       GraphLineOf(<<"|", " ", "*", " ">>, <<FullHashOf(2), "Bob", 1700000100>>),
       GraphLineOf(<<"|", " ", "*", " ">>, <<FullHashOf(2), "Bob", 1700000100, "Second", <<FullHashOf(1)>>, "">>),
       GraphLineOf(<<"|", "/", " ", " ">>, <<>>),
       GraphLineOf(<<>>, <<>>),
       GraphLineOf(<<"*", " ">>, <<FullHashOf(1), "Alice", 1700000000, "Initial", NoParents>>) >>

\* Output of a graph command that succeeds and prints connectors only.
ConnectorOnlyLines == << GraphLineOf(<<"|">>, <<>>) >>

\* One line of `git log --pretty=format:%H|%an|%at|%s|%P`: its "|"-separated parts.
SimpleLineOf(k, n) ==
    <<FullHashOf(k), "Dev", 1700000000 + k, "Change", IF k = n THEN NoParents ELSE <<FullHashOf(k + 1)>>>>

\* A linear history of n commits, newest first.
LinearLines(n) == [k \in 1..n |-> SimpleLineOf(k, n)]

\* What the two log commands do when the loader runs them: graphOk / simpleOk
\* say whether cmd.Run() returned nil, graphOut / simpleOut are the lines of
\* the output.
SourceOf(gok, gout, sok, sout) ==
    [graphOk |-> gok, graphOut |-> gout, simpleOk |-> sok, simpleOut |-> sout]

ScenarioSource == SourceOf(TRUE, ScenarioLines, TRUE, LinearLines(2))
BranchSource == SourceOf(TRUE, BranchLines, TRUE, LinearLines(3))
ConnectorOnlySource == SourceOf(TRUE, ConnectorOnlyLines, TRUE, <<>>)
LinearSource == SourceOf(FALSE, <<>>, TRUE, LinearLines(PageStep + 1))
MalformedSource == SourceOf(FALSE, <<>>, TRUE, << <<FullHashOf(1), "Dev", 1>>, <<>> >>)
FailedSource == SourceOf(FALSE, <<>>, FALSE, <<>>)

----------------------------------------------------------------------------
(* type commit, type displayRow *)

NewCommit(fullHash, author, date, message, parents, refs) ==
    [ Hash |-> ShortHash(fullHash), FullHash |-> fullHash, Author |-> author,
      Date |-> date, Message |-> message, Parents |-> parents, Refs |-> refs,
      GraphLine |-> "", DiffLoaded |-> FALSE, DiffStat |-> <<>>, DiffBody |-> <<>> ]

NewRow(graphChars, commitIdx, graphWidth) ==
    [GraphChars |-> graphChars, CommitIdx |-> commitIdx, GraphWidth |-> graphWidth]

\* ShortAll that keeps the parents' full hashes.
ShortAllFull(ps) == ps

ShortAll(ps) == [i \in 1..Len(ps) |-> ShortHash(ps[i])]

IsNoBlank(ch) == ch # " "

\* transliterateGraph that also drops the blanks of the connector segment.
transliterateGraphNoBlanks(s) ==
    LET t == SelectSeq(s, IsNoBlank)
    IN [i \in 1..Len(t) |-> IF t[i] = "*" THEN "DOT" ELSE IF t[i] = "|" THEN "VBAR" ELSE t[i]]

\* strings.NewReplacer("*", U+25CF, "|", U+2502); the two display glyphs are
\* written "DOT" and "VBAR" here.
transliterateGraph(s) ==
    [i \in 1..Len(s) |-> IF s[i] = "*" THEN "DOT" ELSE IF s[i] = "|" THEN "VBAR" ELSE s[i]]

\* parseGraphLine that gives a commit row the number of rows so far as its
\* commit index.
parseGraphLineRowIdx(st, line) ==
    LET parts == line.fields
        gw == Len(line.graph)
        mw == IF gw > st.maxGraphWidth THEN gw ELSE st.maxGraphWidth
    IN IF (Len(line.graph) = 0 /\ Len(parts) = 0) \/ (Len(parts) > 0 /\ Len(parts) < 4) THEN st
       ELSE IF Len(parts) > 0
          THEN [ commits |-> Append(st.commits,
                     NewCommit(parts[1], parts[2], parts[3], parts[4],
                               IF Len(parts) > 4 THEN ShortAll(parts[5]) ELSE <<>>,
                               IF Len(parts) > 5 THEN parts[6] ELSE "")),
                 displayRows |-> Append(st.displayRows,
                     NewRow(transliterateGraph(line.graph), Len(st.displayRows), gw)),
                 maxGraphWidth |-> mw ]
       ELSE [ commits |-> st.commits,
              displayRows |-> Append(st.displayRows,
                  NewRow(transliterateGraph(line.graph), -1, gw)),
              maxGraphWidth |-> mw ]

\* parseGraphLine whose connector-only lines leave maxGraphWidth alone.
parseGraphLineCommitMax(st, line) ==
    LET parts == line.fields
        gw == Len(line.graph)
        mw == IF gw > st.maxGraphWidth THEN gw ELSE st.maxGraphWidth
    IN IF (Len(line.graph) = 0 /\ Len(parts) = 0) \/ (Len(parts) > 0 /\ Len(parts) < 4) THEN st
       ELSE IF Len(parts) > 0
          THEN [ commits |-> Append(st.commits,
                     NewCommit(parts[1], parts[2], parts[3], parts[4],
                               IF Len(parts) > 4 THEN ShortAll(parts[5]) ELSE <<>>,
                               IF Len(parts) > 5 THEN parts[6] ELSE "")),
                 displayRows |-> Append(st.displayRows,
                     NewRow(transliterateGraph(line.graph), Len(st.commits), gw)),
                 maxGraphWidth |-> mw ]
       ELSE [ commits |-> st.commits,
              displayRows |-> Append(st.displayRows,
                  NewRow(transliterateGraph(line.graph), -1, gw)),
              maxGraphWidth |-> st.maxGraphWidth ]

\* parseGraphLine that puts the row of a line before the rows so far.
parseGraphLinePrepend(st, line) ==
    LET parts == line.fields
        gw == Len(line.graph)
        mw == IF gw > st.maxGraphWidth THEN gw ELSE st.maxGraphWidth
    IN IF (Len(line.graph) = 0 /\ Len(parts) = 0) \/ (Len(parts) > 0 /\ Len(parts) < 4) THEN st
       ELSE IF Len(parts) > 0
          THEN [ commits |-> Append(st.commits,
                     NewCommit(parts[1], parts[2], parts[3], parts[4],
                               IF Len(parts) > 4 THEN ShortAll(parts[5]) ELSE <<>>,
                               IF Len(parts) > 5 THEN parts[6] ELSE "")),
                 displayRows |-> <<NewRow(transliterateGraph(line.graph), Len(st.commits), gw)>>
                                 \o st.displayRows,
                 maxGraphWidth |-> mw ]
       ELSE [ commits |-> st.commits,
              displayRows |-> <<NewRow(transliterateGraph(line.graph), -1, gw)>> \o st.displayRows,
              maxGraphWidth |-> mw ]

\* parseGraphLine that keeps the graph part of a record of fewer than 4
\* fields as a connector-only row.
parseGraphLineShortAsRow(st, line) ==
    LET parts == line.fields
        gw == Len(line.graph)
        mw == IF gw > st.maxGraphWidth THEN gw ELSE st.maxGraphWidth
    IN IF Len(line.graph) = 0 /\ Len(parts) = 0 THEN st
       ELSE IF Len(parts) >= 4
          THEN [ commits |-> Append(st.commits,
                     NewCommit(parts[1], parts[2], parts[3], parts[4],
                               IF Len(parts) > 4 THEN ShortAll(parts[5]) ELSE <<>>,
                               IF Len(parts) > 5 THEN parts[6] ELSE "")),
                 displayRows |-> Append(st.displayRows,
                     NewRow(transliterateGraph(line.graph), Len(st.commits), gw)),
                 maxGraphWidth |-> mw ]
       ELSE [ commits |-> st.commits,
              displayRows |-> Append(st.displayRows,
                  NewRow(transliterateGraph(line.graph), -1, gw)),
              maxGraphWidth |-> mw ]

\* The body of the loop over lines of loadGraphData: what one line adds to
\* st (commits, displayRows, maxGraphWidth).  An empty line and a record of
\* fewer than 4 fields are skipped (continue).
parseGraphLine(st, line) ==
    LET parts == line.fields
        gw == Len(line.graph)
        mw == IF gw > st.maxGraphWidth THEN gw ELSE st.maxGraphWidth
    IN IF Len(line.graph) = 0 /\ Len(parts) = 0 THEN st
       ELSE IF Len(parts) > 0
          THEN IF Len(parts) < 4 THEN st
               ELSE [ commits |-> Append(st.commits,
                          NewCommit(parts[1], parts[2], parts[3], parts[4],
                                    IF Len(parts) > 4 THEN ShortAll(parts[5]) ELSE <<>>,
                                    IF Len(parts) > 5 THEN parts[6] ELSE "")),
                      displayRows |-> Append(st.displayRows,
                          NewRow(transliterateGraph(line.graph), Len(st.commits), gw)),
                      maxGraphWidth |-> mw ]
       ELSE [ commits |-> st.commits,
              displayRows |-> Append(st.displayRows,
                  NewRow(transliterateGraph(line.graph), -1, gw)),
              maxGraphWidth |-> mw ]

\* The loop over lines of loadGraphData, from line i on.
RECURSIVE ParseGraphFrom(_, _, _)
ParseGraphFrom(lines, i, st) ==
    IF i > Len(lines) THEN st
    ELSE ParseGraphFrom(lines, i + 1, parseGraphLine(st, lines[i]))

\* loadGraphData: an error leaves the model as it was; otherwise commits,
\* displayRows and maxGraphWidth are rebuilt from the output.
loadGraphData(mm, src) ==
    IF ~src.graphOk THEN [ok |-> FALSE, m |-> mm]
    ELSE LET st == ParseGraphFrom(src.graphOut, 1,
                       [commits |-> <<>>, displayRows |-> <<>>, maxGraphWidth |-> 0])
         IN [ok |-> TRUE,
             m |-> [mm EXCEPT !.commits = st.commits, !.displayRows = st.displayRows,
                              !.maxGraphWidth = st.maxGraphWidth]]

\* generateGraph: the symbol of a commit in simple mode.
generateGraph(commits) ==
    [i \in 1..Len(commits) |->
        [commits[i] EXCEPT !.GraphLine =
            IF Len(commits[i].Parents) = 0 THEN "RING "
            ELSE IF Len(commits[i].Parents) = 1 THEN "DOT " ELSE "DIAMOND "]]

RECURSIVE ParseSimpleFrom(_, _, _)
ParseSimpleFrom(lines, i, commits) ==
    IF i > Len(lines) THEN commits
    ELSE LET parts == lines[i]
         IN IF Len(parts) = 0 \/ Len(parts) < 4
               THEN ParseSimpleFrom(lines, i + 1, commits)
               ELSE ParseSimpleFrom(lines, i + 1,
                      Append(commits,
                          NewCommit(parts[1], parts[2], parts[3], parts[4],
                                    IF Len(parts) > 4 THEN ShortAll(parts[5]) ELSE <<>>, "")))

\* loadCommitsFromGitCLI
loadCommitsFromGitCLI(src) ==
    IF ~src.simpleOk THEN [ok |-> FALSE, commits |-> <<>>]
    ELSE [ok |-> TRUE, commits |-> generateGraph(ParseSimpleFrom(src.simpleOut, 1, <<>>))]


----------------------------------------------------------------------------
(* The diff command *)

\* A Go string that the code splits on "\n", as its lines: "" is <<>>.
JoinLines(lines) == IF lines = <<"">> THEN <<>> ELSE lines
SplitLines(str) == IF Len(str) = 0 THEN <<"">> ELSE str

RECURSIVE TrimLeft(_)
TrimLeft(lines) ==
    IF Len(lines) > 0 /\ Head(lines) = "" THEN TrimLeft(Tail(lines)) ELSE lines

RECURSIVE TrimRight(_)
TrimRight(lines) ==
    IF Len(lines) > 0 /\ lines[Len(lines)] = ""
        THEN TrimRight(SubSeq(lines, 1, Len(lines) - 1)) ELSE lines

\* strings.TrimSpace on the lines of a text: blank lines at both ends go.
TrimSpace(lines) == TrimLeft(TrimRight(lines))

\* What the two `git show` runs of one fetch do: whether each exits with
\* success and the lines of its output.
ShowOf(sok, sout, bok, bout) == [statOk |-> sok, statOut |-> sout, bodyOk |-> bok, bodyOut |-> bout]

StatText == <<" main.go | 2 +-", " 1 file changed", "">>
PatchText == <<"diff --git a/main.go b/main.go", "@@ -1 +1 @@", "-old", "+new", "">>
LongPatch == [i \in 1..(MaxDiffLines + 1) |-> IF i = 1 THEN "diff --git a/x b/x" ELSE "+line"]

ShowDiff == ShowOf(TRUE, StatText, TRUE, PatchText)
ShowEmpty == ShowOf(TRUE, <<"">>, TRUE, <<"">>)
ShowFails == ShowOf(FALSE, <<>>, FALSE, <<>>)

diffLoadedMsg(idx, stat, body) == [type |-> "diffLoadedMsg", commitIdx |-> idx, diffStat |-> stat, diffBody |-> body]

\* loadDiffCmd: the message the command delivers when its two runs end as `show`.
loadDiffCmd(show, idx) ==
    LET stat == IF show.statOk THEN JoinLines(TrimSpace(show.statOut)) ELSE <<>>
        diffLines == show.bodyOut
        cut == IF Len(diffLines) > MaxDiffLines
                  THEN Append(SubSeq(diffLines, 1, MaxDiffLines), "... (truncated)")
                  ELSE diffLines
        body == IF show.bodyOk THEN JoinLines(cut) ELSE <<>>
    IN diffLoadedMsg(idx, stat, body)


----------------------------------------------------------------------------
(* model, Update *)

initialModel ==
    [ commits |-> <<>>, ready |-> FALSE, err |-> FALSE, selected |-> 0,
      windowHeight |-> 0, windowWidth |-> 0, focusedBox |-> 1, detailsScroll |-> 0,
      displayRows |-> <<>>, maxGraphWidth |-> 0 ]

\* What Update returns: the model, the commits a diff fetch is dispatched for
\* (none or one) and whether the command is tea.Quit.
Ret(mm, cmd) == [m |-> mm, cmd |-> cmd, quit |-> FALSE]

\* maybeLoadDiff that tests m.selected > 0 instead of m.selected >= 0.
maybeLoadDiffNotFirst(mm) ==
    IF mm.selected > 0 /\ mm.selected < Len(mm.commits)
       /\ ~mm.commits[mm.selected + 1].DiffLoaded
        THEN {mm.selected} ELSE {}

maybeLoadDiff(mm) ==
    IF mm.selected >= 0 /\ mm.selected < Len(mm.commits)
       /\ ~mm.commits[mm.selected + 1].DiffLoaded
        THEN {mm.selected} ELSE {}

WithDiff(mm) == Ret(mm, maybeLoadDiff(mm))

\* listKey whose page-down does not clamp selected to the last commit.
listKeyNoClamp(mm, key) ==
    IF key \in {"d", "ctrl+d"}
        THEN WithDiff([mm EXCEPT !.selected = mm.selected + PageStep, !.detailsScroll = 0])
    ELSE IF key \in {"j", "down"} /\ mm.selected < Len(mm.commits) - 1
        THEN WithDiff([mm EXCEPT !.selected = mm.selected + 1, !.detailsScroll = 0])
    ELSE IF key \in {"g", "home"}
        THEN WithDiff([mm EXCEPT !.selected = 0, !.detailsScroll = 0])
    ELSE Ret(mm, {})

\* listKey whose line keys move the selection and keep detailsScroll.
listKeyKeepScroll(mm, key) ==
    LET n == Len(mm.commits) IN
    IF key \in {"j", "down"} THEN
        WithDiff(IF mm.selected < n - 1 THEN [mm EXCEPT !.selected = mm.selected + 1] ELSE mm)
    ELSE IF key \in {"k", "up"} THEN
        WithDiff(IF mm.selected > 0 THEN [mm EXCEPT !.selected = mm.selected - 1] ELSE mm)
    ELSE IF key \in {"g", "home"} THEN
        WithDiff([mm EXCEPT !.selected = 0, !.detailsScroll = 0])
    ELSE IF key \in {"G", "end"} THEN
        WithDiff([mm EXCEPT !.selected = n - 1, !.detailsScroll = 0])
    ELSE Ret(mm, {})

\* listKey without the jump keys: g / home and G / end are not bound.
listKeyNoJumps(mm, key) ==
    LET n == Len(mm.commits) IN
    IF key \in {"j", "down"} THEN
        WithDiff(IF mm.selected < n - 1
                    THEN [mm EXCEPT !.selected = mm.selected + 1, !.detailsScroll = 0]
                    ELSE mm)
    ELSE IF key \in {"k", "up"} THEN
        WithDiff(IF mm.selected > 0
                    THEN [mm EXCEPT !.selected = mm.selected - 1, !.detailsScroll = 0]
                    ELSE mm)
    ELSE IF key \in {"d", "ctrl+d"} THEN
        WithDiff([mm EXCEPT !.selected = IF mm.selected + PageStep >= n THEN n - 1
                                          ELSE mm.selected + PageStep,
                            !.detailsScroll = 0])
    ELSE Ret(mm, {})

\* case 1: keys of the commit list
listKey(mm, key) ==
    LET n == Len(mm.commits) IN
    IF key \in {"j", "down"} THEN
        WithDiff(IF mm.selected < n - 1
                    THEN [mm EXCEPT !.selected = mm.selected + 1, !.detailsScroll = 0]
                    ELSE mm)
    ELSE IF key \in {"k", "up"} THEN
        WithDiff(IF mm.selected > 0
                    THEN [mm EXCEPT !.selected = mm.selected - 1, !.detailsScroll = 0]
                    ELSE mm)
    ELSE IF key \in {"d", "ctrl+d"} THEN
        WithDiff([mm EXCEPT !.selected = IF mm.selected + PageStep >= n THEN n - 1
                                          ELSE mm.selected + PageStep,
                            !.detailsScroll = 0])
    ELSE IF key \in {"u", "ctrl+u"} THEN
        WithDiff([mm EXCEPT !.selected = IF mm.selected - PageStep < 0 THEN 0
                                          ELSE mm.selected - PageStep,
                            !.detailsScroll = 0])
    ELSE IF key \in {"g", "home"} THEN
        WithDiff([mm EXCEPT !.selected = 0, !.detailsScroll = 0])
    ELSE IF key \in {"G", "end"} THEN
        WithDiff([mm EXCEPT !.selected = n - 1, !.detailsScroll = 0])
    ELSE Ret(mm, {})

\* case 2: keys of the commit details
detailsKey(mm, key) ==
    IF key \in {"j", "down"} THEN
        Ret([mm EXCEPT !.detailsScroll = mm.detailsScroll + 1], {})
    ELSE IF key \in {"k", "up"} THEN
        Ret(IF mm.detailsScroll > 0
               THEN [mm EXCEPT !.detailsScroll = mm.detailsScroll - 1] ELSE mm, {})
    ELSE IF key \in {"d", "ctrl+d"} THEN
        Ret([mm EXCEPT !.detailsScroll = mm.detailsScroll + PageStep], {})
    ELSE IF key \in {"u", "ctrl+u"} THEN
        Ret([mm EXCEPT !.detailsScroll = IF mm.detailsScroll - PageStep < 0 THEN 0
                                          ELSE mm.detailsScroll - PageStep], {})
    ELSE IF key \in {"g", "home"} THEN
        Ret([mm EXCEPT !.detailsScroll = 0], {})
    ELSE Ret(mm, {})

\* updateKey that scrolls the focused box whether or not commits are loaded.
updateKeyUnguarded(mm, key) ==
    IF key \in {"q", "ctrl+c", "esc"} THEN [m |-> mm, cmd |-> {}, quit |-> TRUE]
    ELSE IF key = "0" THEN Ret([mm EXCEPT !.focusedBox = 0], {})
    ELSE IF key = "1" THEN Ret([mm EXCEPT !.focusedBox = 1], {})
    ELSE IF key = "2" THEN Ret([mm EXCEPT !.focusedBox = 2], {})
    ELSE IF mm.focusedBox = 1 THEN listKey(mm, key)
    ELSE IF mm.focusedBox = 2 THEN detailsKey(mm, key)
    ELSE Ret(mm, {})

\* updateKey that scrolls the details whenever the commit list is not focused.
updateKeyBoxZeroScrolls(mm, key) ==
    IF key \in {"q", "ctrl+c", "esc"} THEN [m |-> mm, cmd |-> {}, quit |-> TRUE]
    ELSE IF key = "0" THEN Ret([mm EXCEPT !.focusedBox = 0], {})
    ELSE IF key = "1" THEN Ret([mm EXCEPT !.focusedBox = 1], {})
    ELSE IF key = "2" THEN Ret([mm EXCEPT !.focusedBox = 2], {})
    ELSE IF mm.ready /\ Len(mm.commits) > 0 THEN
        IF mm.focusedBox = 1 THEN listKey(mm, key) ELSE detailsKey(mm, key)
    ELSE Ret(mm, {})

\* updateKey whose quit keys act only once the model is ready.
updateKeyQuitWhenReady(mm, key) ==
    IF key \in {"q", "ctrl+c", "esc"} /\ mm.ready THEN [m |-> mm, cmd |-> {}, quit |-> TRUE]
    ELSE IF key = "0" THEN Ret([mm EXCEPT !.focusedBox = 0], {})
    ELSE IF key = "1" THEN Ret([mm EXCEPT !.focusedBox = 1], {})
    ELSE IF key = "2" THEN Ret([mm EXCEPT !.focusedBox = 2], {})
    ELSE IF mm.ready /\ Len(mm.commits) > 0 THEN
        IF mm.focusedBox = 1 THEN listKey(mm, key)
        ELSE IF mm.focusedBox = 2 THEN detailsKey(mm, key)
        ELSE Ret(mm, {})
    ELSE Ret(mm, {})

\* case tea.KeyMsg
updateKey(mm, key) ==
    IF key \in {"q", "ctrl+c", "esc"} THEN [m |-> mm, cmd |-> {}, quit |-> TRUE]
    ELSE IF key = "0" THEN Ret([mm EXCEPT !.focusedBox = 0], {})
    ELSE IF key = "1" THEN Ret([mm EXCEPT !.focusedBox = 1], {})
    ELSE IF key = "2" THEN Ret([mm EXCEPT !.focusedBox = 2], {})
    ELSE IF mm.ready /\ Len(mm.commits) > 0 THEN
        IF mm.focusedBox = 1 THEN listKey(mm, key)
        ELSE IF mm.focusedBox = 2 THEN detailsKey(mm, key)
        ELSE Ret(mm, {})
    ELSE Ret(mm, {})

\* The resize case that also scrolls the details back to the top.
updateWindowSizeResets(mm, w, h) ==
    Ret([mm EXCEPT !.windowWidth = w, !.windowHeight = h, !.detailsScroll = 0], {})

\* case tea.WindowSizeMsg
updateWindowSize(mm, w, h) == Ret([mm EXCEPT !.windowWidth = w, !.windowHeight = h], {})

\* loadAll that reports an error when the graph load fails, without the
\* simple load.
loadAllGraphOnly(mm, src) ==
    LET g == loadGraphData(mm, src) IN
    IF g.ok THEN WithDiff([g.m EXCEPT !.ready = TRUE, !.selected = 0])
    ELSE Ret([mm EXCEPT !.err = TRUE, !.ready = TRUE], {})

\* The part the repoMsg and errMsg cases share: the graph load, the simple
\* load when it fails, then ready, selected = 0 and the first diff fetch.
loadAll(mm, src) ==
    LET g == loadGraphData(mm, src) IN
    IF g.ok THEN WithDiff([g.m EXCEPT !.ready = TRUE, !.selected = 0])
    ELSE LET c == loadCommitsFromGitCLI(src) IN
         IF ~c.ok THEN Ret([mm EXCEPT !.err = TRUE, !.ready = TRUE], {})
         ELSE WithDiff([mm EXCEPT !.commits = c.commits, !.ready = TRUE, !.selected = 0])

\* case repoMsg
updateRepoMsg(mm, src) == loadAll(mm, src)

\* case errMsg
updateErrMsg(mm, src) == loadAll(mm, src)

\* updateDiffLoaded that appends the patch to the one already stored.
updateDiffLoadedAppend(mm, msg) ==
    IF msg.commitIdx >= 0 /\ msg.commitIdx < Len(mm.commits)
        THEN Ret([mm EXCEPT !.commits[msg.commitIdx + 1] =
                        [@ EXCEPT !.DiffLoaded = TRUE, !.DiffStat = msg.diffStat,
                                  !.DiffBody = @ \o msg.diffBody]], {})
        ELSE Ret(mm, {})

\* updateDiffLoaded that stores the result on the selected commit.
updateDiffLoadedOnSelected(mm, msg) ==
    IF mm.selected >= 0 /\ mm.selected < Len(mm.commits)
        THEN Ret([mm EXCEPT !.commits[mm.selected + 1] =
                        [@ EXCEPT !.DiffLoaded = TRUE, !.DiffStat = msg.diffStat,
                                  !.DiffBody = msg.diffBody]], {})
        ELSE Ret(mm, {})

\* updateDiffLoaded that drops the result of a commit that is not selected.
updateDiffLoadedIfSelected(mm, msg) ==
    IF msg.commitIdx >= 0 /\ msg.commitIdx < Len(mm.commits) /\ msg.commitIdx = mm.selected
        THEN Ret([mm EXCEPT !.commits[msg.commitIdx + 1] =
                        [@ EXCEPT !.DiffLoaded = TRUE, !.DiffStat = msg.diffStat,
                                  !.DiffBody = msg.diffBody]], {})
        ELSE Ret(mm, {})

\* updateDiffLoaded that marks every commit loaded with the result.
updateDiffLoadedAll(mm, msg) ==
    IF msg.commitIdx >= 0 /\ msg.commitIdx < Len(mm.commits)
        THEN Ret([mm EXCEPT !.commits =
                        [i \in 1..Len(mm.commits) |->
                            [mm.commits[i] EXCEPT !.DiffLoaded = TRUE, !.DiffStat = msg.diffStat,
                                                  !.DiffBody = msg.diffBody]]], {})
        ELSE Ret(mm, {})

\* case diffLoadedMsg
updateDiffLoaded(mm, msg) ==
    IF msg.commitIdx >= 0 /\ msg.commitIdx < Len(mm.commits)
        THEN Ret([mm EXCEPT !.commits[msg.commitIdx + 1] =
                        [@ EXCEPT !.DiffLoaded = TRUE, !.DiffStat = msg.diffStat,
                                  !.DiffBody = msg.diffBody]], {})
        ELSE Ret(mm, {})


----------------------------------------------------------------------------
(* View *)

Range(a, b) == [start |-> a, end |-> b]

\* graphWindow without the slide back of startIdx when endIdx is clamped.
graphWindowNoSlide(total, selRow, visibleHeight) ==
    LET s0 == IF selRow - (visibleHeight \div 3) < 0 THEN 0
              ELSE selRow - (visibleHeight \div 3)
        e0 == s0 + visibleHeight
    IN Range(s0, IF e0 > total THEN total ELSE e0)

\* graphWindow anchored at the middle of the viewport instead of its first third.
graphWindowMiddle(total, selRow, visibleHeight) ==
    LET s0 == IF selRow - (visibleHeight \div 2) < 0 THEN 0
              ELSE selRow - (visibleHeight \div 2)
        e0 == s0 + visibleHeight
    IN IF e0 > total
          THEN Range(IF total - visibleHeight < 0 THEN 0 ELSE total - visibleHeight, total)
          ELSE Range(s0, e0)

\* renderCommitList, graph mode: the rows shown when row selRow of total is
\* selected and visibleHeight rows fit.
graphWindow(total, selRow, visibleHeight) ==
    LET s0 == IF selRow - (visibleHeight \div 3) < 0 THEN 0
              ELSE selRow - (visibleHeight \div 3)
        e0 == s0 + visibleHeight
    IN IF e0 > total
          THEN Range(IF total - visibleHeight < 0 THEN 0 ELSE total - visibleHeight, total)
          ELSE Range(s0, e0)

\* renderCommitList, simple mode: the commits shown.
simpleWindow(total, selected, visibleHeight) ==
    LET s0 == IF selected >= visibleHeight THEN selected - visibleHeight + 1 ELSE 0
        e0 == s0 + visibleHeight
    IN Range(s0, IF e0 > total THEN total ELSE e0)

\* visibleHeight := m.windowHeight - 8; if visibleHeight < 1 { visibleHeight = 1 }
visibleHeightOf(mm) == IF mm.windowHeight - ListChrome < 1 THEN 1 ELSE mm.windowHeight - ListChrome

\* renderCommitList without the search for the selected commit's row.
selectedRowIdxZero(mm) == 0

\* The display row index of the selected commit: the first row that carries
\* it, 0 when no row does.
selectedRowIdxOf(mm) ==
    LET hits == {i \in 1..Len(mm.displayRows) : mm.displayRows[i].CommitIdx = mm.selected}
    IN IF hits = {} THEN 0 ELSE (CHOOSE i \in hits : \A j \in hits : i <= j) - 1

Blank == [sel |-> FALSE, row |-> -1, commit |-> -1, graph |-> <<>>]

Blanks(k) == [i \in 1..k |-> Blank]

\* resultLines[:maxLines] with maxLines = max(3, windowHeight - 8)
clipList(mm, lines) ==
    LET maxLines == IF mm.windowHeight - ListChrome < 3 THEN 3 ELSE mm.windowHeight - ListChrome
    IN IF Len(lines) > maxLines THEN SubSeq(lines, 1, maxLines) ELSE lines

\* padLen := m.maxGraphWidth - row.GraphWidth (0 when negative);
\* graphPadded := row.GraphChars + strings.Repeat(" ", padLen)
graphPadded(mm, row) ==
    LET padLen == IF mm.maxGraphWidth - row.GraphWidth < 0 THEN 0
                  ELSE mm.maxGraphWidth - row.GraphWidth
    IN row.GraphChars \o [i \in 1..padLen |-> " "]

\* strings.ReplaceAll(graphPadded, U+25CF, U+25C9): the selected row's dot,
\* written "RING" here.
highlight(g) == [i \in 1..Len(g) |-> IF g[i] = "DOT" THEN "RING" ELSE g[i]]

\* renderCommitList: mode, the selected row, the visible range and the lines
\* written (sel: the line starts with "> "; row, commit: what it shows).
renderCommitList(mm) ==
    IF Len(mm.commits) = 0
        THEN [mode |-> "empty", selectedRowIdx |-> 0, startIdx |-> 0, endIdx |-> 0, lines |-> <<>>]
    ELSE IF Len(mm.displayRows) > 0
        THEN LET sr == selectedRowIdxOf(mm)
                 r == graphWindow(Len(mm.displayRows), sr, visibleHeightOf(mm))
                 shown == [k \in 1..(r.end - r.start) |->
                             LET row == mm.displayRows[r.start + k]
                                 isSel == row.CommitIdx >= 0 /\ row.CommitIdx = mm.selected
                             IN [sel |-> isSel, row |-> r.start + k - 1,
                                 commit |-> row.CommitIdx,
                                 graph |-> IF isSel THEN highlight(graphPadded(mm, row))
                                           ELSE graphPadded(mm, row)]]
                 pad == IF Len(shown) < visibleHeightOf(mm)
                           THEN Blanks(visibleHeightOf(mm) - Len(shown)) ELSE <<>>
             IN [mode |-> "graph", selectedRowIdx |-> sr, startIdx |-> r.start, endIdx |-> r.end,
                 lines |-> clipList(mm, shown \o pad \o <<Blank>>)]
    ELSE LET r == simpleWindow(Len(mm.commits), mm.selected, visibleHeightOf(mm))
             shown == [k \in 1..(r.end - r.start) |->
                         [sel |-> r.start + k - 1 = mm.selected,
                          row |-> r.start + k - 1, commit |-> r.start + k - 1,
                          graph |-> <<mm.commits[r.start + k].GraphLine>>]]
             pad == IF Len(shown) < visibleHeightOf(mm)
                       THEN Blanks(visibleHeightOf(mm) - Len(shown)) ELSE <<>>
         IN [mode |-> "simple", selectedRowIdx |-> mm.selected, startIdx |-> r.start,
             endIdx |-> r.end, lines |-> clipList(mm, shown \o pad \o <<Blank>>)]

\* The text renderCommitDetails builds for commit c, split on "\n".
detailLines(c) ==
    <<"SHA", "Date", "Author">>
    \o (IF Len(c.Parents) > 0 THEN <<"Parents">> ELSE <<>>)
    \o (IF c.Refs # "" THEN <<"Refs">> ELSE <<>>)
    \o <<"", "--- Message ---", c.Message>>
    \o (IF c.DiffLoaded /\ Len(c.DiffStat) > 0
           THEN <<"", "--- Stats ---">> \o SplitLines(c.DiffStat) ELSE <<>>)
    \o (IF c.DiffLoaded /\ Len(c.DiffBody) > 0
           THEN <<"", "--- Diff ---">> \o SplitLines(c.DiffBody)
           ELSE IF ~c.DiffLoaded THEN <<"", "Loading diff...">> ELSE <<>>)
    \o <<"">>

\* maxLines := m.windowHeight - 8 - 2; if maxLines < 3 { maxLines = 3 }
detailMaxLines(mm) ==
    IF mm.windowHeight - ListChrome - 2 < 3 THEN 3 ELSE mm.windowHeight - ListChrome - 2

\* The scroll offset renderCommitDetails uses: detailsScroll clamped to the text.
clampScroll(scroll, lineCount) ==
    LET hi == IF scroll >= lineCount THEN lineCount - 1 ELSE scroll
    IN IF hi < 0 THEN 0 ELSE hi

\* renderCommitDetails without the cut to maxLines.
renderCommitDetailsNoCut(mm) ==
    IF Len(mm.commits) = 0 \/ mm.selected < 0 \/ mm.selected >= Len(mm.commits)
        THEN [lines |-> <<>>, offset |-> 0, detailsScroll |-> mm.detailsScroll]
    ELSE LET allLines == detailLines(mm.commits[mm.selected + 1])
             o == clampScroll(mm.detailsScroll, Len(allLines))
             rest == IF o > 0 THEN SubSeq(allLines, o + 1, Len(allLines)) ELSE allLines
         IN [lines |-> rest, offset |-> o, detailsScroll |-> o]

\* renderCommitDetails: the lines returned, the offset they start at and the
\* value the method leaves in its receiver's detailsScroll.
renderCommitDetails(mm) ==
    IF Len(mm.commits) = 0 \/ mm.selected < 0 \/ mm.selected >= Len(mm.commits)
        THEN [lines |-> <<>>, offset |-> 0, detailsScroll |-> mm.detailsScroll]
    ELSE LET allLines == detailLines(mm.commits[mm.selected + 1])
             o == clampScroll(mm.detailsScroll, Len(allLines))
             rest == IF o > 0 THEN SubSeq(allLines, o + 1, Len(allLines)) ELSE allLines
             cut == IF Len(rest) > detailMaxLines(mm)
                       THEN SubSeq(rest, 1, detailMaxLines(mm)) ELSE rest
         IN [lines |-> cut, offset |-> o, detailsScroll |-> o]

NoList == [mode |-> "none", selectedRowIdx |-> 0, startIdx |-> 0, endIdx |-> 0, lines |-> <<>>]
NoDetails == [lines |-> <<>>, offset |-> 0, detailsScroll |-> 0]

\* View that tests err before the window size.
ViewErrorFirst(mm) ==
    IF ~mm.ready THEN [kind |-> "initializing", list |-> NoList, details |-> NoDetails]
    ELSE IF mm.err THEN [kind |-> "error", list |-> NoList, details |-> NoDetails]
    ELSE IF mm.windowWidth < MinWidth \/ mm.windowHeight < MinHeight
        THEN [kind |-> "waiting", list |-> NoList, details |-> NoDetails]
    ELSE [kind |-> "panels", list |-> renderCommitList(mm), details |-> renderCommitDetails(mm)]

\* View: which frame is returned and, for the panel frame, the contents of
\* the commit list and of the commit details.
View(mm) ==
    IF ~mm.ready THEN [kind |-> "initializing", list |-> NoList, details |-> NoDetails]
    ELSE IF mm.windowWidth < MinWidth \/ mm.windowHeight < MinHeight
        THEN [kind |-> "waiting", list |-> NoList, details |-> NoDetails]
    ELSE IF mm.err THEN [kind |-> "error", list |-> NoList, details |-> NoDetails]
    ELSE [kind |-> "panels", list |-> renderCommitList(mm), details |-> renderCommitDetails(mm)]


\* View's own copy of the model when it returns: renderCommitDetails, called
\* on the address of that copy, has clamped its detailsScroll.
receiverAfterView(mm) ==
    IF View(mm).kind = "panels"
        THEN [mm EXCEPT !.detailsScroll = View(mm).details.detailsScroll]
    ELSE mm

\* The loop's model after a render if View had a pointer receiver.
modelAfterViewPointer(mm) == receiverAfterView(mm)

\* The loop's model after it rendered mm: View has a value receiver, what it
\* does to its copy is gone when it returns.
modelAfterView(mm) == mm

\* The frame of the deferred recover: "PANIC caught: ...".
PanicFrame == [kind |-> "panic", list |-> NoList, details |-> NoDetails]

\* What is left when the fault is not recovered: no frame is returned.
NoFrame == [kind |-> "none", list |-> NoList, details |-> NoDetails]

\* View without the deferred recover.
ViewNoRecover(mm, fault) == IF fault THEN NoFrame ELSE View(mm)

\* View with its deferred function: a fault raised while the frame is
\* composed is recovered and the result is the diagnostic frame.
ViewRecover(mm, fault) == IF fault THEN PanicFrame ELSE View(mm)

----------------------------------------------------------------------------
(* The event loop *)

Keys == { "q", "ctrl+c", "esc", "0", "1", "2", "j", "down", "k", "up", "d", "ctrl+d",
          "u", "ctrl+u", "g", "home", "G", "end", "pgup", "pgdown" }

\* Terminal sizes a resize event may report: <<width, height>>.
WindowSizes == { <<19, 14>>, <<80, 9>>, <<80, 14>> }

\* The runs explored: the repository the log commands show, what `git show`
\* may do for a fetch, and the sizes the terminal may take.
\* faults: whether a render may raise a fault.
EnvOf(src, shows, sizes) ==
    [src |-> src, shows |-> shows, sizes |-> sizes, faults |-> {FALSE}]

Envs ==
    { EnvOf(ScenarioSource, {ShowDiff, ShowFails}, {<<80, 9>>, <<80, 14>>}),
      EnvOf(ConnectorOnlySource, {ShowEmpty}, WindowSizes),
      EnvOf(MalformedSource, {ShowDiff}, WindowSizes),
      EnvOf(FailedSource, {ShowDiff}, WindowSizes) }

\* A run on a history longer than a page, read in simple mode.
PageEnvs == { EnvOf(LinearSource, {ShowFails}, {<<80, 14>>}) }

DiffMsgs(idx) == { loadDiffCmd(show, idx) : show \in env.shows }

Count(bag, c) == IF c \in DOMAIN bag THEN bag[c] ELSE 0

Dispatch(bag, cmd) == [c \in DOMAIN bag \cup cmd |-> Count(bag, c) + (IF c \in cmd THEN 1 ELSE 0)]

Deliver(bag, c) == [x \in {y \in DOMAIN bag : y # c \/ bag[y] > 1} |-> IF x = c THEN bag[x] - 1 ELSE bag[x]]

RECURSIVE SumOver(_, _)
SumOver(bag, cs) ==
    IF cs = {} THEN 0
    ELSE LET c == CHOOSE x \in cs : TRUE IN bag[c] + SumOver(bag, cs \ {c})

\* The number of commands in flight.
InFlight(bag) == SumOver(bag, DOMAIN bag)

Fetched(mm, bag) == DOMAIN bag \cup {c \in 0..(Len(mm.commits) - 1) : mm.commits[c + 1].DiffLoaded}

\* The bounds of the model: a step is taken only while they hold after it.
WithinBounds(r) ==
    /\ r.m.detailsScroll <= MaxScroll
    /\ InFlight(Dispatch(inflight, r.cmd)) <= MaxInFlight
    /\ Cardinality(Fetched(r.m, Dispatch(inflight, r.cmd))) <= MaxFetched

EventOf(type, key, idx, stat, body) ==
    [type |-> type, key |-> key, commitIdx |-> idx, diffStat |-> stat, diffBody |-> body]

NoEvent == EventOf("none", "", -1, <<>>, <<>>)

PrevOf(mm) == [selected |-> mm.selected, detailsScroll |-> mm.detailsScroll]

NoWin == [total |-> 0, selRow |-> 0, visibleHeight |-> 0, graph |-> NoList, simple |-> NoList]

\* One turn of the loop: Update returned r for the message ev, then View.
Step(r, ev) ==
    /\ WithinBounds(r)
    /\ m' = modelAfterView(r.m)
    /\ inflight' = Dispatch(inflight, r.cmd)
    /\ quit' = r.quit
    /\ event' = ev
    /\ prev' = PrevOf(m)
    /\ \E fault \in env.faults : frame' = ViewRecover(r.m, fault)
    /\ UNCHANGED <<win, env>>

\* The program after tea.NewProgram(initialModel(repoPath)) and Init().
Start ==
    /\ m = initialModel
    /\ loading = TRUE
    /\ inflight = << >>
    /\ event = NoEvent
    /\ prev = PrevOf(initialModel)
    /\ frame = View(initialModel)
    /\ quit = FALSE

Init == Start /\ win = NoWin /\ env \in Envs

PageInit == Start /\ win = NoWin /\ env \in PageEnvs

KeyMsg ==
    /\ ~quit
    /\ \E key \in Keys : Step(updateKey(m, key), EventOf("KeyMsg", "", -1, <<>>, <<>>))
    /\ UNCHANGED loading

WindowSizeMsg ==
    /\ ~quit
    /\ \E sz \in env.sizes :
          Step(updateWindowSize(m, sz[1], sz[2]), EventOf("WindowSizeMsg", "", -1, <<>>, <<>>))
    /\ UNCHANGED loading

\* loadRepo opened the repository with go-git: repoMsg
RepoMsg ==
    /\ ~quit /\ loading
    /\ Step(updateRepoMsg(m, env.src), EventOf("repoMsg", "", -1, <<>>, <<>>))
    /\ loading' = FALSE

\* loadRepo could not open it: errMsg
ErrMsg ==
    /\ ~quit /\ loading
    /\ Step(updateErrMsg(m, env.src), EventOf("errMsg", "", -1, <<>>, <<>>))
    /\ loading' = FALSE

\* A diff fetch for commit c ends and its message is handled.
DiffLoadedFor(c) ==
    /\ ~quit
    /\ c \in DOMAIN inflight
    /\ \E msg \in DiffMsgs(c) :
          /\ WithinBounds(updateDiffLoaded(m, msg))
          /\ m' = modelAfterView(updateDiffLoaded(m, msg).m)
          /\ inflight' = Deliver(inflight, c)
          /\ quit' = FALSE
          /\ event' = EventOf("diffLoadedMsg", "", msg.commitIdx, msg.diffStat, msg.diffBody)
          /\ prev' = PrevOf(m)
          /\ \E fault \in env.faults : frame' = ViewRecover(m', fault)
          /\ UNCHANGED <<win, env, loading>>

DiffLoadedMsg == \E c \in DOMAIN inflight : DiffLoadedFor(c)

Next == KeyMsg \/ WindowSizeMsg \/ RepoMsg \/ ErrMsg \/ DiffLoadedMsg

Spec == Init /\ [][Next]_vars

\* The commit indices of the repositories of Envs.
EnvCommits == {0, 1}

PageSpec == PageInit /\ [][Next]_vars

\* Results of diff commands in flight are delivered: a command's goroutine ends
\* and the loop takes its message (while the program has not quit).
FairSpec == Spec /\ WF_vars(DiffLoadedMsg)

\* The runs of one repository in one terminal size, with fair delivery of
\* the diff results.
FetchEnvs == { EnvOf(ScenarioSource, {ShowDiff, ShowFails}, {<<80, 14>>}) }

FetchInit == Start /\ win = NoWin /\ env \in FetchEnvs

FetchSpec == FetchInit /\ [][Next]_vars /\ WF_vars(DiffLoadedMsg)

\* The runs in which any render may raise a fault.
FaultEnvs ==
    { [EnvOf(ScenarioSource, {ShowFails}, {<<80, 14>>}) EXCEPT !.faults = BOOLEAN] }

FaultInit == Start /\ win = NoWin /\ env \in FaultEnvs

FaultSpec == FaultInit /\ [][Next]_vars

----------------------------------------------------------------------------
(* The loaders on their own: the output of the graph command is drawn from *)
(* the streams of up to MaxLines lines of six kinds, the load result is    *)
(* handled and the selection moves over the first commits.                 *)

LineKinds == {"commit", "branch", "connector", "wide", "short", "empty"}

\* The k-th line of a stream, of the given kind: a commit without parents, a
\* commit on a second lane with a parent and refs, two connector lines, a
\* record cut after its third field, and an empty line.
LineOf(kind, k) ==
    IF kind = "commit" THEN
        GraphLineOf(<<"*", " ">>, <<FullHashOf(k), "Alice", 1700000000 + k, "Initial", NoParents, "">>)
    ELSE IF kind = "branch" THEN
        GraphLineOf(<<"|", " ", "*", " ">>,
                    <<FullHashOf(k), "Bob", 1700000000 + k, "Second", <<FullHashOf(k + 1)>>, "HEAD -> main">>)
    ELSE IF kind = "connector" THEN GraphLineOf(<<"|", "\\">>, <<>>)
    ELSE IF kind = "wide" THEN GraphLineOf(<<"|", " ", "|", "/", " ">>, <<>>)
    ELSE IF kind = "short" THEN GraphLineOf(<<"*", " ">>, <<FullHashOf(k), "Bob", 1700000000 + k>>)
    ELSE GraphLineOf(<<>>, <<>>)

KindSeqs == UNION { [1..n -> LineKinds] : n \in 0..MaxLines }

StreamOf(kinds) == [k \in 1..Len(kinds) |-> LineOf(kinds[k], k)]

ParseSources ==
    { SourceOf(TRUE, StreamOf(kinds), TRUE, LinearLines(2)) : kinds \in KindSeqs }
    \cup { ScenarioSource, BranchSource, MalformedSource, FailedSource, LinearSource }
    \cup { SourceOf(FALSE, <<>>, TRUE, LinearLines(n)) : n \in 0..MaxLines }

ParseEnvs == { EnvOf(src, {ShowFails}, {<<80, 14>>}) : src \in ParseSources }

ParseKeys == {"j", "k"}

ParseInit == Start /\ win = NoWin /\ env \in ParseEnvs

LineKeyMsg ==
    /\ ~quit
    /\ \E key \in ParseKeys : Step(updateKey(m, key), EventOf("KeyMsg", "", -1, <<>>, <<>>))
    /\ UNCHANGED loading

ParseNext == LineKeyMsg \/ WindowSizeMsg \/ RepoMsg \/ ErrMsg

ParseSpec == ParseInit /\ [][ParseNext]_vars

----------------------------------------------------------------------------
(* The scroll window of renderCommitList, on its own: a row count, a       *)
(* selected row and a viewport height are drawn, and the list is rendered  *)
(* in graph mode and in simple mode for them.                              *)

WinInputs ==
    { <<t, sr, v>> \in (1..MaxRows) \X (0..(MaxRows - 1)) \X (1..MaxViewport) : sr < t }
    \cup { <<1000, 500, 10>> }

PlainCommit(i) == NewCommit(FullHashOf(i), "Dev", 1700000000 + i, "Change", NoParents, "")

\* A graph-mode model with t rows whose selected commit sits on row sr: up to
\* row sr a connector row follows every commit row, from row sr on every row
\* carries a commit.  visibleHeight is v.
graphModelOf(t, sr, v) ==
    LET sel == (sr + 1) \div 2
        idx(i) == IF i >= sr THEN sel + (i - sr) ELSE IF i % 2 = 0 THEN i \div 2 ELSE -1
    IN [initialModel EXCEPT
           !.ready = TRUE,
           !.commits = [i \in 1..(sel + t - sr) |-> PlainCommit(i)],
           !.displayRows = [i \in 1..t |-> NewRow(<<"DOT", " ">>, idx(i - 1), 2)],
           !.maxGraphWidth = 2,
           !.selected = sel,
           !.windowWidth = 80,
           !.windowHeight = v + ListChrome]

\* A simple-mode model with t commits, commit sr selected.
simpleModelOf(t, sr, v) ==
    [initialModel EXCEPT
        !.ready = TRUE,
        !.commits = generateGraph([i \in 1..t |-> PlainCommit(i)]),
        !.selected = sr,
        !.windowWidth = 80,
        !.windowHeight = v + ListChrome]

WinInit ==
    /\ Start
    /\ env \in PageEnvs
    /\ \E in \in WinInputs :
          win = [total |-> in[1], selRow |-> in[2], visibleHeight |-> in[3],
                 graph |-> NoList, simple |-> NoList]

RenderGraph ==
    /\ win.graph.mode = "none"
    /\ win' = [win EXCEPT !.graph =
                  renderCommitList(graphModelOf(win.total, win.selRow, win.visibleHeight))]
    /\ UNCHANGED <<m, loading, inflight, event, prev, frame, quit, env>>

RenderSimple ==
    /\ win.simple.mode = "none"
    /\ win' = [win EXCEPT !.simple =
                  renderCommitList(simpleModelOf(win.total, win.selRow, win.visibleHeight))]
    /\ UNCHANGED <<m, loading, inflight, event, prev, frame, quit, env>>

WinNext == RenderGraph \/ RenderSimple

WindowSpec == WinInit /\ [][WinNext]_vars


----------------------------------------------------------------------------
(* The panel compositor on its own: trimToHeight, addBoxLabel, the panel   *)
(* widths and the fit of the frame to the window, each applied to inputs   *)
(* drawn from bounded sets.  A string is kept as the result of             *)
(* strings.Split(s, "\n"): a non-empty sequence of lines.                  *)

\* A Go run-time panic (slice bounds out of range) in place of a result.
Panic == [panic |-> TRUE, lines |-> <<>>]

Returns(lines) == [panic |-> FALSE, lines |-> lines]

EmptyLines(k) == [i \in 1..k |-> ""]

\* trimToHeight(rendered, targetHeight), rendered given as its lines.
trimToHeight(split, targetHeight) ==
    LET lines == IF Len(split) > 0 /\ split[Len(split)] = ""
                    THEN SubSeq(split, 1, Len(split) - 1) ELSE split
    IN IF Len(lines) > targetHeight
          THEN IF targetHeight - 1 < 1 THEN Panic
               ELSE Returns(<<lines[1]>> \o SubSeq(lines, 2, targetHeight - 1)
                            \o <<lines[Len(lines)]>>)
       ELSE Returns(lines \o EmptyLines(targetHeight - Len(lines)))

\* The code points of the runes used here: ESC, the CSI opener "[" (which is
\* also in the final-byte range), a parameter byte, a final byte, a border
\* character outside the final-byte range, and the characters of the labels.
CodeOf(r) ==
    CASE r = "ESC" -> 27 [] r = "[" -> 91 [] r = "1" -> 49 [] r = "m" -> 109
      [] r = "-" -> 45 [] r = "L" -> 76 [] r = "0" -> 48 [] r = "]" -> 93

\* runes[i] >= 0x40 && runes[i] <= 0x7E
IsFinal(r) == CodeOf(r) >= 64 /\ CodeOf(r) <= 126

\* The index of the final byte of the escape sequence whose bytes start at
\* i, or Len(runes) + 1 when the line ends before one.
RECURSIVE FinalFrom(_, _)
FinalFrom(runes, i) ==
    IF i > Len(runes) THEN i
    ELSE IF IsFinal(runes[i]) THEN i
    ELSE FinalFrom(runes, i + 1)

\* addBoxLabel's walk that replaces visible characters from the corner on.
RECURSIVE labelWalkFromCorner(_, _, _, _, _)
labelWalkFromCorner(runes, i, visibleIdx, labelIdx, label) ==
    IF i > Len(runes) THEN <<>>
    ELSE IF runes[i] = "ESC" /\ i + 1 <= Len(runes) /\ runes[i + 1] = "["
        THEN LET j == FinalFrom(runes, i + 2)
                 last == IF j > Len(runes) THEN Len(runes) ELSE j
             IN SubSeq(runes, i, last)
                \o labelWalkFromCorner(runes, j + 1, visibleIdx, labelIdx, label)
    ELSE IF labelIdx < Len(label)
        THEN <<label[labelIdx + 1]>>
             \o labelWalkFromCorner(runes, i + 1, visibleIdx + 1, labelIdx + 1, label)
    ELSE <<runes[i]>> \o labelWalkFromCorner(runes, i + 1, visibleIdx + 1, labelIdx, label)

addBoxLabelFromCorner(rendered, label) ==
    [top |-> labelWalkFromCorner(rendered.top, 1, 0, 0, label), rest |-> rendered.rest]

\* addBoxLabel's walk that takes every rune for a visible character.
RECURSIVE labelWalkNoEscapes(_, _, _, _, _)
labelWalkNoEscapes(runes, i, visibleIdx, labelIdx, label) ==
    IF i > Len(runes) THEN <<>>
    ELSE IF visibleIdx >= 1 /\ labelIdx < Len(label)
        THEN <<label[labelIdx + 1]>>
             \o labelWalkNoEscapes(runes, i + 1, visibleIdx + 1, labelIdx + 1, label)
    ELSE <<runes[i]>> \o labelWalkNoEscapes(runes, i + 1, visibleIdx + 1, labelIdx, label)

addBoxLabelNoEscapes(rendered, label) ==
    [top |-> labelWalkNoEscapes(rendered.top, 1, 0, 0, label), rest |-> rendered.rest]

\* The loop of addBoxLabel over the runes of the top line, from rune i on:
\* an escape sequence (ESC, "[", bytes up to a final byte) is copied, a visible
\* character at visible position >= 1 is replaced while label runes are left.
RECURSIVE labelWalk(_, _, _, _, _)
labelWalk(runes, i, visibleIdx, labelIdx, label) ==
    IF i > Len(runes) THEN <<>>
    ELSE IF runes[i] = "ESC" /\ i + 1 <= Len(runes) /\ runes[i + 1] = "["
        THEN LET j == FinalFrom(runes, i + 2)
                 last == IF j > Len(runes) THEN Len(runes) ELSE j
             IN SubSeq(runes, i, last) \o labelWalk(runes, j + 1, visibleIdx, labelIdx, label)
    ELSE IF visibleIdx >= 1 /\ labelIdx < Len(label)
        THEN <<label[labelIdx + 1]>>
             \o labelWalk(runes, i + 1, visibleIdx + 1, labelIdx + 1, label)
    ELSE <<runes[i]>> \o labelWalk(runes, i + 1, visibleIdx + 1, labelIdx, label)

\* addBoxLabel(rendered, label): rendered is given as strings.SplitN(rendered,
\* "\n", 2) gives it, the runes of its first line and the rest.
addBoxLabel(rendered, label) ==
    [top |-> labelWalk(rendered.top, 1, 0, 0, label), rest |-> rendered.rest]

Runes == {"ESC", "[", "1", "m", "-"}

Labels == { <<>>, <<"L">>, <<"[", "0", "]">> }

LabelInputs ==
    { [fn |-> "label", rendered |-> [top |-> t, rest |-> r], label |-> l] :
        t \in UNION { [1..n -> Runes] : n \in 0..MaxTop },
        r \in { <<>>, <<"body", "bottom">> },
        l \in Labels }

\* View's panel widths without the 3/5 cap on the left panel.
panelWidthsNoCap(windowWidth, maxGraphWidth) ==
    LET left0 == Max(maxGraphWidth + 14, MinLeftWidth)
        right1 == windowWidth - left0
        floored == windowWidth - MinRightWidth < LeftFloor
        left2 == IF right1 >= MinRightWidth THEN left0
                 ELSE IF floored THEN LeftFloor ELSE windowWidth - MinRightWidth
        right2 == IF right1 >= MinRightWidth THEN right1
                  ELSE IF floored THEN windowWidth - LeftFloor ELSE MinRightWidth
    IN [left |-> left2, right |-> right2]

\* View's panel widths without the floor under the left panel.
panelWidthsNoFloor(windowWidth, maxGraphWidth) ==
    LET left0 == Max(maxGraphWidth + 14, MinLeftWidth)
        left1 == Min(left0, (windowWidth * 3) \div 5)
        right1 == windowWidth - left1
    IN IF right1 >= MinRightWidth THEN [left |-> left1, right |-> right1]
       ELSE [left |-> windowWidth - MinRightWidth, right |-> MinRightWidth]

\* The panel widths View computes: maxGraphWidth + 14 raised to 25, capped at
\* 3/5 of the window, the right panel taking the rest; a right panel under 30
\* is set to 30 and the left to the rest, a left under 15 then to 15 and the
\* right to the rest; a total over the window width is cut back at the end.
panelWidths(windowWidth, maxGraphWidth) ==
    LET left0 == Max(maxGraphWidth + 14, MinLeftWidth)
        maxLeftWidth == (windowWidth * 3) \div 5
        left1 == Min(left0, maxLeftWidth)
        right1 == windowWidth - left1
        floored == windowWidth - MinRightWidth < LeftFloor
        left2 == IF right1 >= MinRightWidth THEN left1
                 ELSE IF floored THEN LeftFloor ELSE windowWidth - MinRightWidth
        right2 == IF right1 >= MinRightWidth THEN right1
                  ELSE IF floored THEN windowWidth - LeftFloor ELSE MinRightWidth
        over == left2 + right2 > windowWidth
        right3 == IF over THEN windowWidth - left2 ELSE right2
        thirds == over /\ right3 < SafetyRight
    IN [left |-> IF thirds THEN windowWidth - windowWidth \div 3 ELSE left2,
        right |-> IF thirds THEN windowWidth \div 3 ELSE right3]

WidthInputs ==
    { [fn |-> "width", windowWidth |-> w, maxGraphWidth |-> g] :
        w \in MinWidth..MaxWidth, g \in 0..MaxGraphWidth }

\* k rendered lines named after what they belong to.
LinesOf(name, k) == [i \in 1..k |-> name \o ToString(i)]

\* contentHeight := m.windowHeight - repoInfoHeight - 5, at least 3.
contentHeightOf(windowHeight, repoInfoHeight) ==
    Max(windowHeight - repoInfoHeight - 5, MinContentHeight)

\* lipgloss.JoinHorizontal(lipgloss.Top, leftPanel, rightPanel) of two panels
\* of the same height.
JoinHorizontal(left, right) == [i \in 1..Len(left) |-> left[i] \o "|" \o right[i]]

\* The output View assembles before fitting it to the window: the repo info
\* box, the two panels trimmed to contentHeight + 2 and joined, the help line.
frameOf(windowHeight, repoInfoBox, leftPanel, rightPanel, help) ==
    LET contentHeight == contentHeightOf(windowHeight, Len(repoInfoBox))
        targetPanelHeight == contentHeight + 2
    IN repoInfoBox
       \o JoinHorizontal(trimToHeight(leftPanel, targetPanelHeight).lines,
                         trimToHeight(rightPanel, targetPanelHeight).lines)
       \o help

\* View's last step left out: the assembled output is returned as it is.
forceFitNone(output, windowHeight) == output

\* View's last step: an output taller than the window keeps its first
\* windowHeight lines, a shorter one gets a newline per missing line.
forceFit(output, windowHeight) ==
    IF Len(output) > windowHeight THEN SubSeq(output, 1, windowHeight)
    ELSE IF Len(output) < windowHeight
        THEN output \o EmptyLines(windowHeight - Len(output))
    ELSE output

\* The panels as lipgloss renders them for a frame input: Height(contentHeight)
\* is a minimum, wrapped lines make a box taller by some extra lines.
RenderedPanel(name, in) ==
    LinesOf(name, contentHeightOf(in.windowHeight, in.repoInfoHeight) + 2 + in.extra[name])

RawFrame(in) ==
    frameOf(in.windowHeight, LinesOf("H", in.repoInfoHeight),
            RenderedPanel("L", in), RenderedPanel("R", in), LinesOf("F", 1))

FrameInputs ==
    { [fn |-> "frame", windowHeight |-> h, repoInfoHeight |-> r,
       extra |-> [L |-> l, R |-> d]] :
        h \in MinHeight..MaxWindowHeight, r \in BoxHeight..MaxBoxHeight,
        l \in 0..MaxExtra, d \in 0..MaxExtra }

ContentLines == {"a", "b", "c", ""}

TrimInputs ==
    { [fn |-> "trim", split |-> c, targetHeight |-> h] :
        c \in UNION { [1..n -> ContentLines] : n \in 1..MaxContent }, h \in 1..MaxTarget }

LayoutInputs == TrimInputs \cup LabelInputs \cup WidthInputs \cup FrameInputs

NoOut == [panic |-> FALSE, lines |-> <<>>]

LayoutInit ==
    /\ Start
    /\ env \in PageEnvs
    /\ \E in \in LayoutInputs : win = [in |-> in, done |-> FALSE, out |-> NoOut]

Others == <<m, loading, inflight, event, prev, frame, quit, env>>

TrimToHeight ==
    /\ win.in.fn = "trim" /\ ~win.done
    /\ win' = [win EXCEPT !.done = TRUE,
                          !.out = trimToHeight(win.in.split, win.in.targetHeight)]
    /\ UNCHANGED Others

AddBoxLabel ==
    /\ win.in.fn = "label" /\ ~win.done
    /\ win' = [win EXCEPT !.done = TRUE,
                          !.out = addBoxLabel(win.in.rendered, win.in.label)]
    /\ UNCHANGED Others

PanelWidths ==
    /\ win.in.fn = "width" /\ ~win.done
    /\ win' = [win EXCEPT !.done = TRUE,
                          !.out = panelWidths(win.in.windowWidth, win.in.maxGraphWidth)]
    /\ UNCHANGED Others

ComposeFrame ==
    /\ win.in.fn = "frame" /\ ~win.done
    /\ win' = [win EXCEPT !.done = TRUE,
                          !.out = forceFit(RawFrame(win.in), win.in.windowHeight)]
    /\ UNCHANGED Others

LayoutNext == TrimToHeight \/ AddBoxLabel \/ PanelWidths \/ ComposeFrame

LayoutSpec == LayoutInit /\ [][LayoutNext]_vars

----------------------------------------------------------------------------
(* Claims about the scroll window (WindowSpec) *)

Rendered(list) == list.mode # "none"

Contains(list) ==
    /\ list.selectedRowIdx = win.selRow
    /\ list.startIdx <= win.selRow
    /\ win.selRow < list.endIdx
    /\ list.endIdx - list.startIdx = Min(win.visibleHeight, win.total)

\* C1: for totalRows >= 1, a selected row in [0, totalRows) and a viewport
\* height >= 1, the visible range [startIdx, endIdx) of the commit list
\* contains the selected row and has length min(viewportHeight, totalRows),
\* in graph mode (rows = displayRows, selected row = the row of the selected
\* commit) and in simple mode (rows = commits, selected row = selected).
C1_ScrollContainment ==
    /\ Rendered(win.graph) => win.graph.mode = "graph" /\ Contains(win.graph)
    /\ Rendered(win.simple) => win.simple.mode = "simple" /\ Contains(win.simple)

\* Both modes rendered, more rows than fit, the last row selected.
C1_Witness ==
    /\ Rendered(win.graph) /\ Rendered(win.simple)
    /\ win.total > win.visibleHeight
    /\ win.selRow = win.total - 1
    /\ win.graph.endIdx = win.total

C3_SameRangeInBothModes ==
    (Rendered(win.graph) /\ Rendered(win.simple)) =>
        /\ win.graph.startIdx = win.simple.startIdx
        /\ win.graph.endIdx = win.simple.endIdx


----------------------------------------------------------------------------
(* Claims about the event loop *)

HasCommits == Len(m.commits) > 0

Selected == m.commits[m.selected + 1]

\* C4: after any sequence of events (keys, resizes, load results, diff
\* results), once commits exist, 0 <= selected < len(commits): the page keys,
\* the line keys and the jump keys keep it in range.
C4_SelectedInRange == HasCommits => (0 <= m.selected /\ m.selected < Len(m.commits))

\* A page-down from the first commit of a history longer than a page, which
\* lands on the last commit.
C4_Witness ==
    /\ event.type = "KeyMsg"
    /\ Len(m.commits) > PageStep
    /\ prev.selected = 0
    /\ m.selected = PageStep
    /\ m.selected = Len(m.commits) - 1

\* C5: every event step in which the selected commit index changes leaves
\* detailsScroll = 0 at its end (prev holds selected as it was before the step).
C5_SelectionChangeResetsScroll == m.selected # prev.selected => m.detailsScroll = 0

\* The selection moved in a step that began with the details scrolled.
C5_Witness == m.selected # prev.selected /\ prev.detailsScroll > 0 /\ m.detailsScroll = 0

\* C6: after any sequence of events and renders the stored detail scroll
\* offset is clamped: 0 <= detailsScroll <= max(0, lineCount - 1), lineCount
\* being the number of lines of the selected commit's detail text.
C6_StoredScrollClamped ==
    (m.ready /\ HasCommits) =>
        /\ 0 <= m.detailsScroll
        /\ m.detailsScroll <= Max(0, Len(detailLines(Selected)) - 1)

\* C7: the detail panel content of a rendered frame is lines[o : o + H] of
\* the selected commit's detail lines, o being detailsScroll clamped to
\* [0, lineCount - 1] and H the detail viewport height; it has at most H lines
\* and lies inside the line buffer.
C7_DetailSlice ==
    (frame.kind = "panels" /\ HasCommits) =>
        LET lines == detailLines(Selected)
            n == Len(lines)
            o == Max(0, Min(m.detailsScroll, n - 1))
            H == Max(3, m.windowHeight - 10)
            shown == frame.details.lines
        IN /\ frame.details.offset = o
           /\ Len(shown) = Min(H, n - o)
           /\ \A k \in 1..Len(shown) : shown[k] = lines[o + k]

\* A frame rendered with detailsScroll beyond the last line of the text.
C7_Witness ==
    /\ frame.kind = "panels" /\ HasCommits
    /\ m.detailsScroll >= Len(detailLines(Selected))
    /\ frame.details.lines = <<"">>

MsgOf(ev) == diffLoadedMsg(ev.commitIdx, ev.diffStat, ev.diffBody)

\* C8: delivering the same diffLoadedMsg twice leaves the model in the state
\* reached after delivering it once: in the state reached by handling a
\* diffLoadedMsg, handling that message again changes nothing and dispatches
\* nothing.
C8_DiffAttachIdempotent ==
    event.type = "diffLoadedMsg" => updateDiffLoaded(m, MsgOf(event)) = Ret(m, {})

\* A patch has been stored on a commit for which a second fetch is in flight.
C8_Witness ==
    /\ event.type = "diffLoadedMsg"
    /\ Len(event.diffBody) > 0
    /\ m.commits[event.commitIdx + 1].DiffBody = event.diffBody
    /\ Count(inflight, event.commitIdx) > 0

Stored(c, ev) ==
    /\ c.DiffLoaded
    /\ c.DiffStat = ev.diffStat
    /\ c.DiffBody = ev.diffBody

\* C9: a diff result delivered for commit c while another commit is selected
\* is stored on commit c, every other commit staying as it was; and once a
\* result is stored for c, c stays loaded and no later step dispatches a fetch
\* for c.
C9_StoredPerCommit ==
    [][ /\ event'.type = "diffLoadedMsg" =>
             /\ Len(m'.commits) = Len(m.commits)
             /\ \A i \in 1..Len(m.commits) :
                   IF i = event'.commitIdx + 1 THEN Stored(m'.commits[i], event')
                   ELSE m'.commits[i] = m.commits[i]
        /\ \A i \in 1..Len(m.commits) :
              m.commits[i].DiffLoaded =>
                 /\ m'.commits[i].DiffLoaded
                 /\ Count(inflight', i - 1) <= Count(inflight, i - 1) ]_vars

\* A patch has been stored on a commit that is not the selected one, whose
\* own diff is not loaded.
C9_Witness ==
    /\ event.type = "diffLoadedMsg"
    /\ event.commitIdx # m.selected
    /\ Len(event.diffBody) > 0
    /\ Stored(m.commits[event.commitIdx + 1], event)
    /\ ~Selected.DiffLoaded

Loaded(c) == c < Len(m.commits) /\ m.commits[c + 1].DiffLoaded

\* C10: under fair delivery of task results every dispatched diff fetch for
\* commit c leads to a state where commit c has DiffLoaded = true, whatever
\* events occur in between and whether or not the diff command succeeded.
C10_FetchLeadsToLoaded == \A c \in EnvCommits : (Count(inflight, c) > 0) ~> Loaded(c)

\* C10 as amended: under fair delivery of task results every dispatched diff
\* fetch for commit c leads to a state where commit c has DiffLoaded = true or
\* the program has quit (a quit key ends the loop, and the results still in
\* flight are never handled), whether or not the diff command succeeded.
C10_FetchLeadsToLoadedOrQuit ==
    \A c \in EnvCommits : (Count(inflight, c) > 0) ~> (Loaded(c) \/ quit)

\* The result of a failed diff command stored on a commit that is not selected.
C10_Witness ==
    /\ event.type = "diffLoadedMsg"
    /\ event.commitIdx # m.selected
    /\ Len(event.diffBody) = 0 /\ Len(event.diffStat) = 0
    /\ Loaded(event.commitIdx)
    /\ ~quit


----------------------------------------------------------------------------
(* Claims about the commit table and the loaders *)

Meta(c) == <<c.Hash, c.FullHash, c.Author, c.Date, c.Message, c.Parents, c.Refs>>

DiffOf(c) == <<c.DiffLoaded, c.DiffStat, c.DiffBody>>

\* C11: background tasks never write model state: after the load completes
\* the commit table's length and every commit's hash, author, date, message,
\* parents and refs never change, and the diff fields of a commit change only
\* in the step of the loop that handles that commit's diffLoadedMsg.
C11_OnlyLoopWritesCommits ==
    [][ m.ready =>
          /\ Len(m'.commits) = Len(m.commits)
          /\ \A i \in 1..Len(m.commits) :
                /\ Meta(m'.commits[i]) = Meta(m.commits[i])
                /\ DiffOf(m'.commits[i]) # DiffOf(m.commits[i]) =>
                      (event'.type = "diffLoadedMsg" /\ event'.commitIdx = i - 1) ]_vars

\* A patch has been stored on the selected commit while a fetch for another
\* commit is in flight.
C11_Witness ==
    /\ m.ready /\ HasCommits
    /\ event.type = "diffLoadedMsg"
    /\ event.commitIdx = m.selected
    /\ DiffOf(Selected) = <<TRUE, event.diffStat, event.diffBody>>
    /\ Len(event.diffBody) > 0
    /\ \E c \in DOMAIN inflight : c # m.selected


\* The load result has been handled and the graph command had succeeded.
GraphParsed == ~loading /\ env.src.graphOk

\* The lines of the graph output that the parser neither skips (empty) nor
\* drops (a record of fewer than 4 fields).
IsKept(line) ==
    /\ ~(Len(line.graph) = 0 /\ Len(line.fields) = 0)
    /\ ~(Len(line.fields) > 0 /\ Len(line.fields) < 4)

KeptLines == SelectSeq(env.src.graphOut, IsKept)

RowsCarrying(c) == {i \in 1..Len(m.displayRows) : m.displayRows[i].CommitIdx = c}

\* C12: after a graph parse every display row has CommitIdx = -1 or
\* 0 <= CommitIdx < len(commits); a line with no 40-hex run yields a
\* connector-only row (CommitIdx = -1) holding the whole line; every commit
\* index in [0, len(commits)) is carried by exactly one row, so the row lookup
\* for the selected commit finds that commit's row.
C12_RowsIndexCommits ==
    GraphParsed =>
        /\ \A i \in 1..Len(m.displayRows) :
              \/ m.displayRows[i].CommitIdx = -1
              \/ (0 <= m.displayRows[i].CommitIdx /\ m.displayRows[i].CommitIdx < Len(m.commits))
        /\ Len(m.displayRows) = Len(KeptLines)
        /\ \A i \in 1..Len(m.displayRows) :
              Len(KeptLines[i].fields) = 0 =>
                 /\ m.displayRows[i].CommitIdx = -1
                 /\ m.displayRows[i].GraphChars = transliterateGraph(KeptLines[i].graph)
                 /\ m.displayRows[i].GraphWidth = Len(KeptLines[i].graph)
        /\ \A c \in 0..(Len(m.commits) - 1) : Cardinality(RowsCarrying(c)) = 1
        /\ HasCommits => m.displayRows[selectedRowIdxOf(m) + 1].CommitIdx = m.selected
        /\ (frame.kind = "panels" /\ HasCommits) =>
              /\ frame.list.mode = "graph"
              /\ m.displayRows[frame.list.selectedRowIdx + 1].CommitIdx = m.selected

\* The second commit of a stream is selected and rendered, and its row lies
\* behind a connector-only row.
C12_Witness ==
    /\ GraphParsed /\ frame.kind = "panels"
    /\ m.selected = 1
    /\ frame.list.selectedRowIdx = 2
    /\ \E i \in 1..2 : m.displayRows[i].CommitIdx = -1


RowWidths == {m.displayRows[i].GraphWidth : i \in 1..Len(m.displayRows)}

\* The lines of a rendered commit list that show a display row.
RowLines(list) == {k \in 1..Len(list.lines) : list.lines[k].row >= 0}

\* C13: after a graph parse every display row has GraphWidth <= maxGraphWidth,
\* maxGraphWidth is the maximum GraphWidth over all rows (0 when there are
\* none), and the padded connector string of every rendered row is
\* maxGraphWidth columns wide.
C13_GraphWidthIsMax ==
    GraphParsed =>
        /\ \A w \in RowWidths : w <= m.maxGraphWidth
        /\ IF RowWidths = {} THEN m.maxGraphWidth = 0 ELSE m.maxGraphWidth \in RowWidths
        /\ frame.list.mode = "graph" =>
              \A k \in RowLines(frame.list) :
                 Len(frame.list.lines[k].graph) = m.maxGraphWidth

\* A rendered graph whose widest row is a connector row and in which the
\* selected commit's row has been padded.
C13_Witness ==
    /\ GraphParsed /\ frame.list.mode = "graph"
    /\ \E i \in 1..Len(m.displayRows) :
          /\ m.displayRows[i].CommitIdx = -1
          /\ m.displayRows[i].GraphWidth = m.maxGraphWidth
    /\ \E k \in RowLines(frame.list) :
          /\ frame.list.lines[k].sel
          /\ m.displayRows[frame.list.lines[k].row + 1].GraphWidth < m.maxGraphWidth


\* The number of rows before row k (1-based) that carry a commit.
CommitRowsBefore(k) == Cardinality({i \in 1..(k - 1) : m.displayRows[i].CommitIdx >= 0})

\* C14: display rows are produced in source-stream order and never re-sorted:
\* the k-th row corresponds to the k-th non-empty, non-dropped input line, and
\* the commit indices carried by rows are 0, 1, 2, ... in row order.
C14_RowsInStreamOrder ==
    /\ [](GraphParsed =>
            /\ Len(m.displayRows) = Len(KeptLines)
            /\ \A k \in 1..Len(m.displayRows) :
                  LET row == m.displayRows[k]
                      line == KeptLines[k]
                  IN /\ row.GraphChars = transliterateGraph(line.graph)
                     /\ row.GraphWidth = Len(line.graph)
                     /\ IF Len(line.fields) = 0 THEN row.CommitIdx = -1
                        ELSE /\ row.CommitIdx = CommitRowsBefore(k)
                             /\ row.CommitIdx < Len(m.commits)
                             /\ m.commits[row.CommitIdx + 1].FullHash = line.fields[1])
    /\ [][~loading => m'.displayRows = m.displayRows]_vars

\* A stream with an empty line and a dropped record between its commits has
\* been parsed into rows that end with the third commit.
C14_Witness ==
    /\ GraphParsed
    /\ Len(env.src.graphOut) > Len(KeptLines) + 1
    /\ Len(m.commits) = 3
    /\ m.displayRows[Len(m.displayRows)].CommitIdx = 2
    /\ \E i \in 1..Len(m.displayRows) : m.displayRows[i].CommitIdx = -1


\* A line with a 40-hex hash whose record has fewer than 4 fields.
IsShort(line) == Len(line.fields) > 0 /\ Len(line.fields) < 4

NotShort(line) == ~IsShort(line)

EmptyParse == [commits |-> <<>>, displayRows |-> <<>>, maxGraphWidth |-> 0]

\* C15: a line that contains a 40-hex hash but whose record has fewer than 4
\* fields is dropped: it adds no commit and no display row, parsing continues
\* with the next line, and the rows and commits produced from the other lines
\* are the same as if the malformed line were absent.
C15_ShortRecordDropped ==
    GraphParsed =>
        LET others == SelectSeq(env.src.graphOut, NotShort)
            st == ParseGraphFrom(others, 1, EmptyParse)
        IN /\ m.displayRows = st.displayRows
           /\ Len(m.commits) = Len(st.commits)
           /\ \A i \in 1..Len(m.commits) : Meta(m.commits[i]) = Meta(st.commits[i])
           /\ Len(m.commits) = Len(SelectSeq(env.src.graphOut, LAMBDA l : Len(l.fields) >= 4))
           /\ Len(m.displayRows) <= Len(others)

\* A stream whose second line is such a record and whose third line is a
\* commit, which has been parsed.
C15_Witness ==
    /\ GraphParsed
    /\ Len(env.src.graphOut) = 3
    /\ IsShort(env.src.graphOut[2])
    /\ Len(env.src.graphOut[3].fields) >= 4
    /\ HasCommits
    /\ m.commits[Len(m.commits)].FullHash = env.src.graphOut[3].fields[1]
    /\ Len(m.displayRows) = 2


\* C16: parsing the three lines "* <hash1>\0Alice\01700000000\0Initial\0\0",
\* "|\" and "* <hash2>\0Bob\01700000100\0Second\0<hash1>\0" yields 3 display
\* rows (commit, connector-only, commit), 2 commits, maxGraphWidth 2 (the
\* longest connector prefix), commit 0 without parents and commit 1 with
\* exactly one parent, the first 7 characters of hash1.
C16_ScenarioParse ==
    (GraphParsed /\ env.src.graphOut = ScenarioLines) =>
        /\ Len(m.displayRows) = 3
        /\ [i \in 1..3 |-> m.displayRows[i].CommitIdx] = <<0, -1, 1>>
        /\ Len(m.commits) = 2
        /\ m.maxGraphWidth = 2
        /\ m.commits[1].FullHash = FullHashOf(1)
        /\ m.commits[1].Parents = <<>>
        /\ m.commits[2].FullHash = FullHashOf(2)
        /\ Len(m.commits[2].Parents) = 1
        /\ m.commits[2].Parents[1] = [hex |-> FullHashOf(1).hex, len |-> 7]

\* The scenario has been parsed, and its second commit is selected and
\* rendered.
C16_Witness ==
    /\ GraphParsed /\ env.src.graphOut = ScenarioLines
    /\ frame.list.mode = "graph"
    /\ m.selected = 1
    /\ m.commits[2].Author = "Bob"


\* C17: for every parsed line the row's GraphWidth is the character count of
\* the connector segment before transliteration; transliteration replaces
\* only '*' and '|', one character for one character, and every other
\* character passes through unchanged, so the transliterated GraphChars has
\* exactly GraphWidth characters.
C17_WidthBeforeTransliteration ==
    GraphParsed =>
        \A k \in 1..Len(m.displayRows) :
            LET row == m.displayRows[k]
                seg == KeptLines[k].graph
            IN /\ row.GraphWidth = Len(seg)
               /\ Len(row.GraphChars) = row.GraphWidth
               /\ \A i \in 1..Len(seg) :
                     /\ seg[i] = "*" => row.GraphChars[i] = "DOT"
                     /\ seg[i] = "|" => row.GraphChars[i] = "VBAR"
                     /\ seg[i] \notin {"*", "|"} => row.GraphChars[i] = seg[i]

\* A commit row on the second lane and a connector row with a slash have
\* been parsed.
C17_Witness ==
    /\ GraphParsed
    /\ \E k \in 1..Len(m.displayRows) :
          /\ m.displayRows[k].CommitIdx >= 0
          /\ m.displayRows[k].GraphChars = <<"VBAR", " ", "DOT", " ">>
    /\ \E k \in 1..Len(m.displayRows) :
          /\ m.displayRows[k].CommitIdx = -1
          /\ m.displayRows[k].GraphChars = <<"VBAR", " ", "VBAR", "/", " ">>
          /\ m.displayRows[k].GraphWidth = 5


\* The load result has been handled, the graph command had failed and the
\* simple command had succeeded.
SimpleLoaded == ~loading /\ ~env.src.graphOk /\ env.src.simpleOk

\* C18: when the graph-formatted source fails and the simple source succeeds
\* the model ends ready with no error, in simple mode: there are no display
\* rows, one rendered row per commit, and rendered row i shows commit i.
C18_SimpleModeFallback ==
    SimpleLoaded =>
        /\ m.ready /\ ~m.err
        /\ Len(m.displayRows) = 0
        /\ m.commits = loadCommitsFromGitCLI(env.src).commits
        /\ (frame.kind = "panels" /\ HasCommits) =>
              LET list == frame.list IN
              /\ list.mode = "simple"
              /\ list.selectedRowIdx = m.selected
              /\ Cardinality(RowLines(list)) = Min(Len(m.commits), visibleHeightOf(m))
              /\ RowLines(list) = 1..(list.endIdx - list.startIdx)
              /\ \A k \in RowLines(list) :
                    /\ list.lines[k].row = list.startIdx + k - 1
                    /\ list.lines[k].commit = list.lines[k].row
                    /\ list.lines[k].sel = (list.lines[k].commit = m.selected)
                    /\ list.lines[k].graph = <<m.commits[list.lines[k].commit + 1].GraphLine>>

\* Three commits loaded by the simple command are rendered, the second one
\* selected.
C18_Witness ==
    /\ SimpleLoaded
    /\ frame.list.mode = "simple"
    /\ Len(m.commits) = 3
    /\ m.selected = 1
    /\ frame.list.lines[2].sel
    /\ Cardinality(RowLines(frame.list)) = 3


\* No line of the output holds a 40-hex run.
NoHash(lines) == \A i \in 1..Len(lines) : Len(lines[i].fields) = 0

\* C19: source failure is detected in both of its forms: if the graph command
\* exits non-zero, or if it exits successfully but its output contains no
\* 40-hex hash at all, the loader runs the simple flat load instead of keeping
\* the graph-mode result.
C19_SourceFailureDetected ==
    (~loading /\ (~env.src.graphOk \/ NoHash(env.src.graphOut))) =>
        IF env.src.simpleOk
           THEN /\ ~m.err
                /\ Len(m.displayRows) = 0
                /\ m.commits = loadCommitsFromGitCLI(env.src).commits
           ELSE m.err


QuitKeys == {"q", "ctrl+c", "esc"}

FocusKeys == {"0", "1", "2"}

\* The keys that move the selection or scroll a panel, and the unbound ones.
NavKeys == Keys \ (QuitKeys \cup FocusKeys)

\* The load result has been handled and both log commands had failed.
BothFailed == ~loading /\ ~env.src.graphOk /\ ~env.src.simpleOk

\* C20: if both the graph-formatted load and the simple fallback load fail the
\* event loop does not terminate: the model becomes ready with err set and an
\* empty commit table, every later render at a usable window size is the
\* diagnostic error frame, navigation keys change no state, and the quit keys
\* still quit.
C20_LoadFailureShowsError ==
    BothFailed =>
        /\ m.ready /\ m.err /\ Len(m.commits) = 0
        /\ event.type \in {"repoMsg", "errMsg"} => ~quit
        /\ quit => event.type = "KeyMsg"
        /\ (m.windowWidth >= MinWidth /\ m.windowHeight >= MinHeight) => frame.kind = "error"
        /\ frame.kind \in {"error", "waiting"}
        /\ \A key \in NavKeys : updateKey(m, key) = Ret(m, {})
        /\ \A key \in QuitKeys : updateKey(m, key).quit

\* The error frame is on screen after a key was handled with the details
\* panel focused, and the program has not quit.
C20_Witness ==
    /\ BothFailed
    /\ frame.kind = "error"
    /\ event.type = "KeyMsg"
    /\ m.focusedBox = 2
    /\ ~quit


----------------------------------------------------------------------------
(* Claims about View *)

TooSmall == m.windowWidth < MinWidth \/ m.windowHeight < MinHeight

\* C21: whenever the model is ready and the last known window width is below
\* 20 or the height below 10 (0x0 before any resize event included), View
\* returns a placeholder frame and composes no panel, whatever the commits,
\* the selection, the focus and the error state.
C21_PlaceholderWhenTooSmall ==
    (m.ready /\ TooSmall) =>
        /\ frame.kind = "waiting"
        /\ frame.list = NoList
        /\ frame.details = NoDetails

\* The placeholder is on screen for a model with an error whose terminal is
\* wide enough and one line too low.
C21_Witness ==
    /\ m.ready /\ m.err
    /\ m.windowWidth >= MinWidth /\ m.windowHeight = MinHeight - 1
    /\ frame.kind = "waiting"

\* The frames View can return.
FrameKinds == {"initializing", "waiting", "error", "panels", "panic"}

\* The models Update can return for a message the loop may take in this state.
UpdatesOf(mm) ==
    { updateKey(mm, key).m : key \in Keys }
    \cup { updateWindowSize(mm, sz[1], sz[2]).m : sz \in env.sizes }
    \cup { updateRepoMsg(mm, env.src).m, updateErrMsg(mm, env.src).m }
    \cup { updateDiffLoaded(mm, msg).m : msg \in UNION { DiffMsgs(c) : c \in DOMAIN inflight } }

\* C22: a fault raised while a frame is composed is caught in View and turned
\* into the diagnostic frame: View always returns a frame, the model after a
\* turn whose render faulted is the model Update returned, and the loop goes
\* on taking events after it.
C22_FaultCaughtInView ==
    /\ [](frame.kind \in FrameKinds)
    /\ []((frame = PanicFrame /\ ~quit) => ENABLED KeyMsg)
    /\ [][frame' = PanicFrame => m' \in UpdatesOf(m)]_vars

\* A turn that moved the selection and whose render faulted: the diagnostic
\* frame is shown, the model holds the new selection, the program runs on.
C22_Witness ==
    /\ frame = PanicFrame
    /\ HasCommits /\ m.selected # prev.selected
    /\ ~quit


----------------------------------------------------------------------------
(* Claims about the panel compositor (LayoutSpec) *)

Did(fn) == win.in.fn = fn /\ win.done

\* The lines trimToHeight works on: the split without a trailing empty string.
TrimmedInput ==
    LET split == win.in.split
    IN IF split[Len(split)] = "" THEN SubSeq(split, 1, Len(split) - 1) ELSE split

IsParam(r) == CodeOf(r) >= 48 /\ CodeOf(r) <= 63

\* The index of the final byte of the escape sequence (ESC, "[", parameter
\* bytes, a final byte) that starts at i, or 0 when none starts there.
SeqEnd(runes, i) ==
    LET ends == { j \in (i + 2)..Len(runes) :
                    /\ IsFinal(runes[j])
                    /\ \A k \in (i + 2)..(j - 1) : IsParam(runes[k]) }
    IN IF runes[i] = "ESC" /\ i + 1 <= Len(runes) /\ runes[i + 1] = "[" /\ ends # {}
          THEN CHOOSE j \in ends : \A k \in ends : j <= k
       ELSE 0

\* Every ESC of the line starts a complete escape sequence.
RECURSIVE WellFormedFrom(_, _)
WellFormedFrom(runes, i) ==
    IF i > Len(runes) THEN TRUE
    ELSE IF runes[i] = "ESC"
        THEN SeqEnd(runes, i) > 0 /\ WellFormedFrom(runes, SeqEnd(runes, i) + 1)
    ELSE WellFormedFrom(runes, i + 1)

WellFormed(runes) == WellFormedFrom(runes, 1)

\* For each rune of the line, whether it belongs to an escape sequence.
RECURSIVE EscTagsFrom(_, _)
EscTagsFrom(runes, i) ==
    IF i > Len(runes) THEN <<>>
    ELSE IF SeqEnd(runes, i) > 0
        THEN [k \in 1..(SeqEnd(runes, i) - i + 1) |-> TRUE]
             \o EscTagsFrom(runes, SeqEnd(runes, i) + 1)
    ELSE <<FALSE>> \o EscTagsFrom(runes, i + 1)

EscTags(runes) == EscTagsFrom(runes, 1)

RECURSIVE PickFrom(_, _, _, _)
PickFrom(runes, tags, t, i) ==
    IF i > Len(runes) THEN <<>>
    ELSE (IF tags[i] = t THEN <<runes[i]>> ELSE <<>>) \o PickFrom(runes, tags, t, i + 1)

\* The line without its escape sequences, and its escape sequences alone.
VisibleOf(runes) == PickFrom(runes, EscTags(runes), FALSE, 1)
EscapesOf(runes) == PickFrom(runes, EscTags(runes), TRUE, 1)

\* The visible text v with the label laid over it after the corner glyph.
Overlay(v, label) ==
    [k \in 1..Len(v) |-> IF k >= 2 /\ k - 1 <= Len(label) THEN label[k - 1] ELSE v[k]]

\* C26: addBoxLabel changes only the first line: the corner glyph (the first
\* visible character) is kept, the visible characters at visible positions
\* 1..len(label) become the label's characters, every other visible character
\* and every later line is unchanged, and a label longer than the visible
\* characters left is truncated, so the visible character count is unchanged.
C26_LabelReplacesAfterCorner ==
    (Did("label") /\ WellFormed(win.in.rendered.top)) =>
        LET vin == VisibleOf(win.in.rendered.top)
            vout == VisibleOf(win.out.top)
            label == win.in.label
        IN /\ win.out.rest = win.in.rendered.rest
           /\ Len(vout) = Len(vin)
           /\ \A k \in 1..Len(vin) :
                 vout[k] = IF k = 1 THEN vin[1]
                           ELSE IF k - 1 <= Len(label) THEN label[k - 1]
                           ELSE vin[k]

\* A three-character label laid over a line with a corner and two more visible
\* characters: the label was truncated, the later lines are there.
C26_Witness ==
    /\ Did("label") /\ WellFormed(win.in.rendered.top)
    /\ Len(win.in.label) = 3
    /\ Len(VisibleOf(win.in.rendered.top)) = 3
    /\ VisibleOf(win.out.top) = <<"-", "[", "0">>
    /\ Len(win.in.rendered.rest) > 0

C28_LeftAtMostThreeFifths ==
    Did("width") => win.out.left <= (win.in.windowWidth * 3) \div 5

\* C28: for every window width >= 20 and every maxGraphWidth the left panel
\* is at most the larger of 15 columns and 3/5 of the window width, so it is
\* at most 3/5 of the window width for every window width >= 25.
C28_LeftCapped ==
    Did("width") =>
        /\ win.out.left <= Max(LeftFloor, (win.in.windowWidth * 3) \div 5)
        /\ win.in.windowWidth >= 25 => win.out.left <= (win.in.windowWidth * 3) \div 5

\* A graph wider than the cap in a wide window: the left panel sits at 3/5.
C28_Witness ==
    /\ Did("width")
    /\ win.in.maxGraphWidth + 14 > (win.in.windowWidth * 3) \div 5
    /\ win.in.windowWidth = MaxWidth
    /\ win.out.left = (win.in.windowWidth * 3) \div 5

\* C29: for every window width >= 20 and every maxGraphWidth the two panel
\* widths sum to the window width, and width - 2, the width passed to each
\* panel's style, is positive for both.
C29_WidthsFillWindow ==
    Did("width") =>
        /\ win.out.left + win.out.right = win.in.windowWidth
        /\ win.out.left - 2 > 0
        /\ win.out.right - 2 > 0

\* The narrowest window: the left panel is at its floor and the right panel
\* has what is left.
C29_Witness ==
    /\ Did("width")
    /\ win.in.windowWidth = MinWidth
    /\ win.out.left = LeftFloor
    /\ win.out.right = MinWidth - LeftFloor


\* C24: the frame View returns has exactly windowHeight lines, whatever the
\* line counts of the repo info box, the joined panels and the help line.
C24_FrameHasWindowHeight ==
    Did("frame") => Len(win.out) = win.in.windowHeight

\* A frame that was assembled taller than the window, with a wrapped repo
\* info box, and came out at the window's height.
C24_Witness ==
    /\ Did("frame")
    /\ Len(RawFrame(win.in)) > win.in.windowHeight
    /\ Len(win.out) = win.in.windowHeight

\* C25: the frame is fitted to windowHeight by the rule of the panels: a
\* frame taller than the window keeps its first line and its last line (the
\* help line) and drops lines in between, a shorter one is padded at the
\* bottom with empty lines.
C25_ForceFitKeepsFooter ==
    Did("frame") =>
        LET raw == RawFrame(win.in)
            h == win.in.windowHeight
        IN /\ Len(raw) > h =>
                 /\ win.out[1] = raw[1]
                 /\ win.out[Len(win.out)] = raw[Len(raw)]
           /\ Len(raw) <= h =>
                 /\ SubSeq(win.out, 1, Len(raw)) = raw
                 /\ \A i \in (Len(raw) + 1)..Len(win.out) : win.out[i] = ""


----------------------------------------------------------------------------
(* Claims about the documented keys *)

\* C30: with commits loaded and the commit list focused, a PgDn key event
\* moves the selection down (by a page, as far as the last commit) and a PgUp
\* key event moves it up (as far as the first).
C30_PageKeysMoveSelection ==
    (m.ready /\ HasCommits /\ m.focusedBox = 1) =>
        /\ m.selected < Len(m.commits) - 1 =>
              updateKey(m, "pgdown").m.selected > m.selected
        /\ m.selected > 0 =>
              updateKey(m, "pgup").m.selected < m.selected


ListFocused == m.ready /\ HasCommits /\ m.focusedBox = 1

\* C31: with commits loaded and the commit list focused, Home (or g) sets
\* selected to 0 and End (or G) sets selected to len(commits) - 1, from any
\* prior selection.
C31_HomeEndJump ==
    ListFocused =>
        /\ \A key \in {"g", "home"} : updateKey(m, key).m.selected = 0
        /\ \A key \in {"G", "end"} : updateKey(m, key).m.selected = Len(m.commits) - 1

\* The selection is neither the first nor the last commit, and the jump keys
\* lead to the two ends.
C31_Witness ==
    /\ ListFocused
    /\ 0 < m.selected /\ m.selected < Len(m.commits) - 1
    /\ updateKey(m, "home").m.selected = 0
    /\ updateKey(m, "end").m.selected = Len(m.commits) - 1
    /\ Len(m.commits) - 1 > m.selected + 1


\* C32: the keys q, esc and ctrl+c quit in every state (not ready, loading
\* failed, any focused panel, any window size): Update returns the quit
\* command and the model unchanged, and the step that quits leaves the model
\* and the fetches in flight as they were.
C32_QuitKeysQuitEverywhere ==
    /\ [](\A key \in QuitKeys : updateKey(m, key) = [m |-> m, cmd |-> {}, quit |-> TRUE])
    /\ [][quit' => (m' = m /\ inflight' = inflight)]_vars

\* The program has quit before the load result arrived, the details panel
\* focused.
C32_Witness == quit /\ ~m.ready /\ loading /\ m.focusedBox = 2


\* The last message handled was the load result and commits were loaded.
JustLoaded == event.type \in {"repoMsg", "errMsg"} /\ HasCommits /\ ~m.err

\* The panels "first panel" can mean: box 0, and the commit list, which
\* initialModel focuses.
FirstPanels == {0, initialModel.focusedBox}

\* C33: immediately after the load-result step of a successful load,
\* selected = 0, detailsScroll = 0 and the focused panel is the first panel,
\* whatever keys were pressed before the load completed.
C33_LoadInitializesSelection ==
    JustLoaded =>
        /\ m.selected = 0
        /\ m.detailsScroll = 0
        /\ m.focusedBox \in FirstPanels


\* m2 is m1 with at most the diff fields of commit c changed.
OnlyDiffOf(m1, m2, c) ==
    /\ [m2 EXCEPT !.commits = m1.commits] = m1
    /\ Len(m2.commits) = Len(m1.commits)
    /\ \A i \in 1..Len(m1.commits) :
          /\ Meta(m2.commits[i]) = Meta(m1.commits[i])
          /\ i # c + 1 => m2.commits[i] = m1.commits[i]

\* C34: a resize event changes only windowWidth and windowHeight, and a
\* diff-result event changes only the diff fields of the addressed commit;
\* neither changes selected, focusedBox or detailsScroll, and neither
\* dispatches a fetch.
C34_ResizeAndDiffKeepSelection ==
    [][/\ event'.type = "WindowSizeMsg" =>
             /\ [m' EXCEPT !.windowWidth = m.windowWidth,
                           !.windowHeight = m.windowHeight] = m
             /\ inflight' = inflight
       /\ event'.type = "diffLoadedMsg" =>
             /\ OnlyDiffOf(m, m', event'.commitIdx)
             /\ m'.selected = m.selected /\ m'.focusedBox = m.focusedBox
             /\ m'.detailsScroll = m.detailsScroll
             /\ \A c \in DOMAIN inflight' : inflight'[c] <= inflight[c]]_vars

\* A resize handled with the second commit selected and the details scrolled.
C34_Witness ==
    /\ event.type = "WindowSizeMsg"
    /\ m.selected > 0 /\ m.detailsScroll > 0 /\ m.focusedBox = 2
    /\ prev.selected = m.selected /\ prev.detailsScroll = m.detailsScroll


\* C35: rendering never changes the state the next event sees: after every
\* turn of the loop the model is the one Update returned, with selected,
\* focusedBox, detailsScroll, commits and displayRows as they were before the
\* render, also when renderCommitDetails clamped the scroll offset.
C35_RenderKeepsModel ==
    /\ [][m' \in UpdatesOf(m)]_vars
    /\ []((frame.kind = "panels" /\ HasCommits) =>
            frame.details.detailsScroll = clampScroll(m.detailsScroll,
                                                      Len(detailLines(Selected))))

\* A frame whose details were rendered at a clamped offset while the loop's
\* model keeps the larger stored one.
C35_Witness ==
    /\ frame.kind = "panels" /\ HasCommits
    /\ frame.details.detailsScroll < m.detailsScroll
    /\ receiverAfterView(m) # m


\* The box a focus key names.
BoxOf(key) == CASE key = "0" -> 0 [] key = "1" -> 1 [] key = "2" -> 2

\* C38: navigation keys are scoped by readiness and focus: while the model is
\* not ready or has no commits they change no state; with panel 0 focused they
\* change no state; with panel 2 focused they change only detailsScroll and
\* dispatch no fetch; with panel 1 focused they change only selected and
\* detailsScroll.  The focus keys 0/1/2 set focusedBox in every state and
\* change nothing else, so focusedBox is always in {0, 1, 2}.
C38_KeysScopedByFocus ==
    /\ m.focusedBox \in {0, 1, 2}
    /\ \A key \in FocusKeys :
          updateKey(m, key) = Ret([m EXCEPT !.focusedBox = BoxOf(key)], {})
    /\ \A key \in NavKeys :
          LET r == updateKey(m, key) IN
          /\ ~r.quit
          /\ (~m.ready \/ ~HasCommits \/ m.focusedBox = 0) => r = Ret(m, {})
          /\ (m.ready /\ HasCommits /\ m.focusedBox = 2) =>
                /\ [r.m EXCEPT !.detailsScroll = m.detailsScroll] = m
                /\ r.cmd = {}
          /\ (m.ready /\ HasCommits /\ m.focusedBox = 1) =>
                [r.m EXCEPT !.selected = m.selected,
                            !.detailsScroll = m.detailsScroll] = m

\* Panel 0 is focused over loaded commits after the details were scrolled:
\* the keys that scrolled them now do nothing.
C38_Witness ==
    /\ m.ready /\ HasCommits /\ m.focusedBox = 0
    /\ m.detailsScroll > 0 /\ m.selected > 0
    /\ updateKey(m, "j") = Ret(m, {})
    /\ updateKey(m, "2").m.focusedBox = 2

----------------------------------------------------------------------------
(* Claims about the diff fetches *)

\* The details panel of the selected commit shows "Loading diff...".
SelectedLoading == m.ready /\ HasCommits /\ ~Selected.DiffLoaded

C37_OneFetchPerCommit == \A c \in DOMAIN inflight : inflight[c] <= 1


----------------------------------------------------------------------------
(* Claims about the marked row of the commit list *)

\* The lines of a rendered list that start with "> ".
Marked(list) == { k \in 1..Len(list.lines) : list.lines[k].sel }

\* Exactly one line of the list is marked, it shows the commit `selected`,
\* and no connector-only row is marked.
OneMarked(list, selected) ==
    /\ Cardinality(Marked(list)) = 1
    /\ \A k \in Marked(list) :
          /\ list.lines[k].commit = selected
          /\ list.lines[k].row = list.selectedRowIdx
    /\ \A k \in 1..Len(list.lines) : list.lines[k].commit < 0 => ~list.lines[k].sel

\* C39: in graph mode, for every state with commits and every viewport
\* height >= 1, the rendered commit-list window has exactly one row marked as
\* selected (prefix "> "), the row carrying the selected commit index, and
\* connector-only rows are never marked.
C39_OneRowMarked ==
    /\ win.graph.mode = "graph" =>
          OneMarked(win.graph,
                    graphModelOf(win.total, win.selRow, win.visibleHeight).selected)
    /\ (frame.kind = "panels" /\ frame.list.mode = "graph") => OneMarked(frame.list, m.selected)

\* A one-row viewport on a selected row that follows connector rows, and a
\* taller one that shows a connector row above the marked row.
C39_Witness ==
    /\ win.graph.mode = "graph"
    /\ win.selRow > 1
    /\ Marked(win.graph) # {}
    /\ \/ win.visibleHeight = 1
       \/ \E k \in 1..Len(win.graph.lines) :
             /\ win.graph.lines[k].row >= 0 /\ win.graph.lines[k].commit < 0
             /\ \A j \in Marked(win.graph) : k < j


====
